---- MODULE Spec2Model ----
(***************************************************************************)
(* Voice session pipeline and session registry of the voice-AI backend.    *)
(*                                                                         *)
(* The backend is one asyncio event loop: a coroutine runs without         *)
(* interruption between two awaits that really suspend.  Every action      *)
(* below is one such uninterrupted run of one coroutine, from the point    *)
(* where it resumes to the next suspension point (or to its return).       *)
(*                                                                         *)
(* Time is counted in tenths of a second.                                  *)
(***************************************************************************)
EXTENDS Integers, Sequences, FiniteSets, TLC

\* ---------------------------------------------------------------- bounds
MaxSessions == 2      \* session objects constructed in one run
MaxTracks == 2        \* audio tracks subscribed per session (one task each)
MaxFrames == 3        \* audio frames the transport delivers in one run
MaxCycles == 2        \* processing cycles a session starts in one run
MaxConns == 2         \* WebSocket connections
MaxEndReqs == 2       \* DELETE /api/session requests in flight at once
MaxPlayFrames == 1    \* outbound frames of one synthesized utterance
SoloSessions == 1     \* sessions of the single-session specification
SoloEndReqs == 1      \* end requests of the single-session specification
SoloConns == 1        \* WebSocket connections but in the two-client specification
PairTracks == 1       \* tracks per session in the two-session specification
PairFrames == 2       \* frames delivered in the two-session specification
LiveFrames == 2       \* frames delivered in the specification with fairness
MaxSweeps == 2        \* POST /api/sessions/cleanup requests in one run
MaxTicks == 3         \* advances of the wall clock in one run
MaxHistory == 16      \* turns of a history passed to generate_response
MaxTextLen == 5       \* characters of the text of a synthesis request
MaxWsTurns == 8       \* turns the WebSocket messages of one run add to a history
MixedTurns == 3       \* turns in a history when a WebSocket message adds one more
MaxClients == 2               \* sessions that share the response cache
MaxDialogue == 4              \* a session takes messages while its history holds fewer turns
MaxSentences == 5     \* sentences of the content of a chat completion

\* ------------------------------------------------------ program constants
max_silence_duration == 20   \* 2.0 s of silence triggers processing
ScenarioSilence == max_silence_duration + 5   \* the 2.5 s of the silence scenario
IDLE_TIMEOUT == 3600         \* seconds; cleanup_idle_sessions
ClockStep == IDLE_TIMEOUT \div 2   \* the wall clock advances half a timeout at a time
persona_window == 12         \* recent_history[-12:] when the first turn is a user turn
default_window == 15         \* conversation_history[-15:] otherwise
cache_ttl == 3600            \* seconds a cached response is served
max_cache_size == 100        \* entries _cleanup_cache keeps
min_sentence_len == 20       \* a sentence chunk is longer than this
secondary_min_len == 100     \* texts longer than this get the clause split
min_clause_len == 40         \* a clause chunk is longer than this
min_words == 6               \* texts of more words get the word split
word_chunk_limit == 45       \* characters of a chunk of the word split
pause_divisor == 6           \* len(words) // 6 chunks get a pacing comma
chunk_limit == 120           \* characters above which a chunk is split again
max_sentences == 3           \* sentences _optimize_response_for_voice keeps
hard_cap == 400              \* characters above which it truncates the response
truncate_at == 350           \* response[:350]
min_break == 200             \* last_punct > 200

\* ------------------------------------------------------------ input sets
Objs == 1..MaxSessions        \* VoiceSession objects, in order of construction
Ids == 1..MaxSessions         \* session ids (the n-th uuid4 is n)
Tracks == 1..MaxTracks
Conns == 1..MaxConns
EndReqs == 1..MaxEndReqs
Sweeps == 1..MaxSweeps

FrameDurations == {5, 20}     \* samples_per_channel / sample_rate of a frame
FrameInputs == [silent : BOOLEAN, dur : FrameDurations]

\* what the transcription provider can send back, before .strip()
RawTranscripts == { <<" ">>, <<"h", " ">> }
Reply == <<"r">>              \* text of a successful generation
Fallback == <<"s">>           \* the fixed apologetic text of generate_response

NoSession == 0                \* absent dictionary key / None
NoConn == 0                   \* callback field holding None
NoText == <<"?">>             \* transcription not yet returned

VARIABLES
    \* ---- VoicePipeline and main module
    pipeline_sessions,    \* VoicePipeline.active_sessions : id -> session object
    active_sessions,      \* main.active_sessions : id -> session record
    is_active,            \* record["is_active"], per record (= per object)
    main_history,         \* record["conversation_history"]
    creq,                 \* state of the create call that constructed object o
    ereq,                 \* state of each end request
    key_order,            \* keys of main.active_sessions in insertion order; a key
                          \* that was deleted stays (ids are never reused)
    created_at,           \* record["created_at"], per record
    now,                  \* time.time(), in seconds
    sweep,                \* state of each cleanup_idle_sessions request
    \* ---- VoiceSession fields, per object
    session_id,
    room,                 \* self.room: "none", "connected", "disconnected"
    audio_source,         \* self.audio_source is not None
    conversation_history,
    is_processing,
    audio_buffer,         \* sequence of the frames whose bytes it holds
    silence_duration,
    quiet,                \* per session: silence heard (all frames, frames taken), frames taken, frames transcribed
    on_transcript,        \* connection whose closure is registered, or NoConn
    on_ai_response,
    \* ---- tasks
    pc,                   \* position of the audio-stream task of (object, track)
    cyc,                  \* locals of _process_speech run by that task
    ws,                   \* state of each WebSocket connection handler
    wsm,                  \* its position in the message loop, and what it sent last
    \* ---- history variables (observations, not program state)
    nframes,              \* frames delivered so far; the next frame is nframes+1
    late,                 \* frames delivered while is_processing was true
    cycles,               \* processing cycles started, per object
    notif,                \* observer notifications, per object, in firing order
    calls,                \* provider calls made, per object
    stt_result,           \* outcome of the provider in the last transcription
    gen_result,           \* outcome of the provider in the last generation
    last_sweep,           \* the sweep that completed last
    \* ---- AIService and the HTTP routes that use it on their own
    gen_call,             \* generate_response: arguments and messages of a call
    tts_req,              \* POST /api/tts: the request being served
    stream,               \* text_to_speech_streaming: the run of the generator
    response_cache,       \* AIService.response_cache: its entries in insertion order
    cache_call,           \* the generate_response call that uses the cache
    cache_by_key,         \* AIService.response_cache: its keys and their responses
    dialogue,             \* record["conversation_history"] of each client's session
    keyed_call,           \* the generate_response call of each client's handler
    served,               \* the text generate_response returned last, per client
    dup,                  \* create_session was called for an id already registered
    handed_out,           \* session objects returned to a caller of create
    end_ok,               \* end requests that reported success, per id
    scen                  \* progress of the silence scenario, per object

vars == << pipeline_sessions, active_sessions, is_active, main_history, creq, ereq,
           session_id, room, audio_source, conversation_history, is_processing,
           audio_buffer, silence_duration, quiet, on_transcript, on_ai_response,
           pc, cyc, ws, wsm, nframes, late, cycles, notif, calls, stt_result,
           dup, handed_out, end_ok, scen,
           key_order, created_at, now, sweep, gen_result, last_sweep,
           gen_call, tts_req, stream, response_cache, cache_call,
           cache_by_key, dialogue, keyed_call, served >>

mapOrderVars == << key_order, created_at >>
registryVars == << pipeline_sessions, active_sessions, is_active, creq, ereq,
                   session_id, room, audio_source, dup, handed_out, end_ok,
                   mapOrderVars >>
wsVars == << ws, on_transcript, on_ai_response, wsm >>
cycleGhosts == << cycles, notif, calls, stt_result, gen_result >>
sweepVars == << now, sweep, last_sweep >>
keyedVars == << cache_by_key, dialogue, keyed_call, served >>
cacheVars == << response_cache, cache_call, keyedVars >>
serviceVars == << gen_call, tts_req, stream, cacheVars >>
\* everything but the service variables
sessionVars == << registryVars, wsVars, cycleGhosts, sweepVars, main_history,
                  conversation_history, is_processing, audio_buffer, silence_duration, quiet,
                  pc, cyc, nframes, late, scen >>
extraVars == << sweepVars, serviceVars >>

\* ---------------------------------------------------------------- helpers
Range(s) == { s[i] : i \in 1..Len(s) }

Min(a, b) == IF a < b THEN a ELSE b

RECURSIVE LStrip(_)
LStrip(s) == IF s # <<>> /\ Head(s) = " " THEN LStrip(Tail(s)) ELSE s

RECURSIVE RStrip(_)
RStrip(s) == IF s # <<>> /\ s[Len(s)] = " " THEN RStrip(SubSeq(s, 1, Len(s) - 1)) ELSE s

\* str.strip()
Strip(s) == RStrip(LStrip(s))

\* outcomes of the transcription provider: it raises, or it sends a text
SttOutcomes == { [raises |-> TRUE, text |-> <<>>] }
                 \cup { [raises |-> FALSE, text |-> r] : r \in RawTranscripts }

\* AIService.transcribe_audio: the provider's text stripped, "" when the call raises
transcribe_audio(out) == IF out.raises THEN <<>> ELSE Strip(out.text)

NoResult == [raises |-> FALSE, text |-> NoText]

\* outcomes of the chat completion inside generate_response: it raises, or it
\* sends a text (Reply stands for the text after strip() and post-processing)
GenOutcomes == { [raises |-> TRUE, text |-> <<>>], [raises |-> FALSE, text |-> Reply] }

\* (mutant) generate_response without its except block returns nothing usable
generate_response_silent(out) == IF out.raises THEN <<>> ELSE out.text

\* AIService.generate_response: the text of the provider, the fixed apology
\* when anything in its try block raised (lines 306-308)
generate_response(out) == IF out.raises THEN Fallback ELSE out.text

TaskIds == Objs \X Tracks
CycleStates == {"stt", "obs_t", "gen", "obs_r", "tts", "play"}
InCycle(o) == { t \in Tracks : pc[<<o, t>>] \in CycleStates }

NoLocals == [audio_bytes |-> <<>>, transcript |-> NoText, ai_response |-> <<>>,
             obs |-> NoConn, frames_left |-> 0]
NoScenario == [on |-> FALSE, fed |-> 0, started |-> 0, fired |-> 0, clean |-> TRUE]

\* a connection handler waiting in receive_text: the event it sent last and
\* the failure it met while handling the last message
NoWsm == [pc |-> "recv", text |-> <<>>, sent |-> "none", failure |-> "none"]

\* a cleanup_idle_sessions request that has not started: its locals, the
\* position and size snapshot of its dictionary iterator, and what it has
\* torn down so far
NoLastSweep == [valid |-> FALSE, cleaned |-> {}, born |-> 0, time |-> 0]
NoSweep == [pc |-> "idle", current_time |-> 0, pos |-> 0, used |-> 0,
            id |-> NoSession, obj |-> NoSession,
            sessions_to_remove |-> <<>>, cleaned_sessions |-> <<>>,
            result |-> "none", torn |-> {}, born |-> 0, prev |-> NoLastSweep]

\* an entry of a conversation history
Turn(role, content) == [role |-> role, content |-> content]

\* ------------------------------------------- generate_response: the prompt
\* a text is a sequence of pieces; the i-th utterance of a conversation
Utterance(i) == << ToString(i) >>
FreshInput == << "new" >>

\* conversation_history[-n:] if len(conversation_history) > n else conversation_history
LastN(s, n) == IF Len(s) > n THEN SubSeq(s, Len(s) - n + 1, Len(s)) ELSE s

\* histories as the callers build them: numbered utterances, user and
\* assistant taking turns, the first turn spoken by `first`
OtherRole(role) == IF role = "user" THEN "assistant" ELSE "user"
History(n, first) ==
    [i \in 1..n |-> Turn(IF i % 2 = 1 THEN first ELSE OtherRole(first), Utterance(i))]
Histories == { History(n, first) : n \in 0..MaxHistory, first \in {"user", "assistant"} }

\* what _get_conversation_memory leaves in memory_context (lines 220-230)
MemoryContexts == { "", " CONTEXT FROM PREVIOUS CONVERSATIONS" }

\* line 232
PersonaPrompt(content, memory_context) ==
    << "You are an AI assistant. " >> \o content
       \o << " Stay focused on this role", memory_context, " IMPORTANT: voice" >>

\* lines 241 and 246
DefaultPrompt == << "SYSTEM_PROMPT", " IMPORTANT: voice" >>

Message(role, content) == [role |-> role, content |-> content]

\* lines 251-256
ForwardHistory(recent_history) ==
    LET kept == SelectSeq(recent_history, LAMBDA e : e.role \in {"user", "assistant"})
    IN [i \in 1..Len(kept) |-> Message(kept[i].role, kept[i].content)]

\* (mutant) the default case keeps the window of the persona case
RecentHistoryShort(history) ==
    IF history = <<>> THEN <<>>
    ELSE LastN(IF history[1].role = "user" THEN Tail(history) ELSE history,
               persona_window)

\* recent_history of lines 237-238, 243 and 248
RecentHistory(history) ==
    IF history = <<>> THEN <<>>
    ELSE IF history[1].role = "user"
    THEN LastN(Tail(history), persona_window)
    ELSE LastN(history, default_window)

\* the messages of the chat completion call (lines 216-260)
BuildMessages(user_input, history, memory_context) ==
    LET recent_history == RecentHistory(history)
        system == IF history # <<>> /\ history[1].role = "user"
                  THEN PersonaPrompt(history[1].content, memory_context)
                  ELSE DefaultPrompt
        current == IF recent_history = <<>>
                      \/ recent_history[Len(recent_history)].content # user_input
                   THEN << Message("user", user_input) >>
                   ELSE <<>>
    IN << Message("system", system) >> \o ForwardHistory(recent_history) \o current

\* two sessions of the main module and the clients that talk to them
Clients == 1..MaxClients
NoKeyedCall == [pc |-> "idle", user_input |-> <<>>, messages |-> <<>>]
NoServed == [text |-> <<>>, own |-> <<>>]

NoGenCall == [pc |-> "idle", user_input |-> <<>>, conversation_history |-> <<>>,
              memory_context |-> "", messages |-> <<>>, content |-> <<>>,
              response |-> <<>>]

\* ------------------------------------------------------------------- Init
Init ==
    /\ pipeline_sessions = [i \in Ids |-> NoSession]
    /\ active_sessions = [i \in Ids |-> NoSession]
    /\ is_active = [o \in Objs |-> FALSE]
    /\ main_history = [o \in Objs |-> <<>>]
    /\ creq = [o \in Objs |-> [pc |-> "unborn", http |-> TRUE]]
    /\ ereq = [r \in EndReqs |-> [pc |-> "idle", id |-> NoSession, obj |-> NoSession,
                                  result |-> "none", tfail |-> FALSE, raced |-> FALSE]]
    /\ session_id = [o \in Objs |-> NoSession]
    /\ room = [o \in Objs |-> "none"]
    /\ audio_source = [o \in Objs |-> FALSE]
    /\ conversation_history = [o \in Objs |-> <<>>]
    /\ is_processing = [o \in Objs |-> FALSE]
    /\ audio_buffer = [o \in Objs |-> <<>>]
    /\ silence_duration = [o \in Objs |-> 0]
    /\ quiet = [o \in Objs |-> [all |-> 0, taken |-> 0, frames |-> <<>>, done |-> {}]]
    /\ on_transcript = [o \in Objs |-> NoConn]
    /\ on_ai_response = [o \in Objs |-> NoConn]
    /\ pc = [x \in TaskIds |-> "none"]
    /\ cyc = [x \in TaskIds |-> NoLocals]
    /\ ws = [w \in Conns |-> [state |-> "closed", obj |-> NoSession]]
    /\ wsm = [w \in Conns |-> NoWsm]
    /\ nframes = 0
    /\ late = {}
    /\ cycles = [o \in Objs |-> 0]
    /\ notif = [o \in Objs |-> <<>>]
    /\ calls = [o \in Objs |-> [stt |-> 0, gen |-> 0, tts |-> 0]]
    /\ stt_result = [o \in Objs |-> NoResult]
    /\ dup = [o \in Objs |-> FALSE]
    /\ handed_out = {}
    /\ end_ok = [i \in Ids |-> 0]
    /\ scen = [o \in Objs |-> NoScenario]
    /\ key_order = <<>>
    /\ created_at = [o \in Objs |-> 0]
    /\ now = 0
    /\ sweep = [k \in Sweeps |-> NoSweep]
    /\ gen_result = [o \in Objs |-> NoResult]
    /\ last_sweep = NoLastSweep
    /\ gen_call = NoGenCall
    /\ tts_req = [pc |-> "idle", text |-> <<>>, status |-> 0, called |-> FALSE]
    /\ stream = [pc |-> "idle", text |-> <<>>, chunks |-> <<>>, i |-> 0, yielded |-> <<>>]
    /\ response_cache = <<>>
    /\ cache_call = [pc |-> "idle", cacheable |-> FALSE, hit |-> FALSE]
    /\ cache_by_key = {}
    /\ dialogue = [c \in Clients |-> <<>>]
    /\ keyed_call = [c \in Clients |-> NoKeyedCall]
    /\ served = [c \in Clients |-> NoServed]

\* ------------------------------------------------------- session creation
\* the object the next constructor call makes
NextObj == CHOOSE o \in Objs : creq[o].pc = "unborn" /\ \A p \in Objs : p < o => creq[p].pc # "unborn"

\* VoicePipeline.create_session up to its await: construct the session (its
\* fields are those of Init), register it under the id, call initialize()
PipelineCreateSession(o, id, http) ==
    /\ session_id' = [session_id EXCEPT ![o] = id]
    /\ dup' = [dup EXCEPT ![o] = pipeline_sessions[id] # NoSession]
    /\ pipeline_sessions' = [pipeline_sessions EXCEPT ![id] = o]
    /\ creq' = [creq EXCEPT ![o] = [pc |-> "agent_token", http |-> http]]

\* POST /api/session/create: uuid4(), then await create_room_token
CreateStart ==
    /\ \E o \in Objs : creq[o].pc = "unborn"
    /\ creq' = [creq EXCEPT ![NextObj] = [pc |-> "token", http |-> TRUE]]
    /\ UNCHANGED << pipeline_sessions, active_sessions, is_active, main_history, ereq,
                    session_id, room, audio_source, dup, handed_out, end_ok >>
    /\ UNCHANGED << conversation_history, is_processing, audio_buffer, silence_duration, quiet,
                    pc, cyc, nframes, late, scen >>
    /\ UNCHANGED wsVars /\ UNCHANGED cycleGhosts
    /\ UNCHANGED extraVars
    /\ UNCHANGED mapOrderVars

\* create_room_token returns to create_session: the user token, or it raises
CreateToken(o) ==
    /\ creq[o].pc = "token"
    /\ \E ok \in BOOLEAN :
         IF ok THEN PipelineCreateSession(o, o, TRUE)
         ELSE /\ creq' = [creq EXCEPT ![o].pc = "failed"]
              /\ UNCHANGED << session_id, dup, pipeline_sessions >>
    /\ UNCHANGED << active_sessions, is_active, main_history, ereq,
                    room, audio_source, handed_out, end_ok >>
    /\ UNCHANGED << conversation_history, is_processing, audio_buffer, silence_duration, quiet,
                    pc, cyc, nframes, late, scen >>
    /\ UNCHANGED wsVars /\ UNCHANGED cycleGhosts
    /\ UNCHANGED extraVars
    /\ UNCHANGED mapOrderVars

\* the exception of initialize() leaves create_session (pipeline and main)
CreateFails(o) == creq' = [creq EXCEPT ![o].pc = "failed"]

\* VoiceSession.initialize resumes after one of its three awaits
InitializeStep(o) ==
    /\ creq[o].pc \in {"agent_token", "connect", "publish"}
    /\ \E ok \in BOOLEAN :
         CASE creq[o].pc = "agent_token" ->
                /\ IF ok THEN /\ room' = [room EXCEPT ![o] = "created"]
                              /\ creq' = [creq EXCEPT ![o].pc = "connect"]
                         ELSE /\ CreateFails(o)
                              /\ UNCHANGED room
                /\ UNCHANGED << audio_source, handed_out, active_sessions, is_active,
                                mapOrderVars >>
           [] creq[o].pc = "connect" ->
                /\ IF ok THEN /\ room' = [room EXCEPT ![o] = "connected"]
                              /\ audio_source' = [audio_source EXCEPT ![o] = TRUE]
                              /\ creq' = [creq EXCEPT ![o].pc = "publish"]
                         ELSE /\ CreateFails(o)
                              /\ UNCHANGED << room, audio_source >>
                /\ UNCHANGED << handed_out, active_sessions, is_active, mapOrderVars >>
           [] creq[o].pc = "publish" ->
                /\ IF ok THEN /\ creq' = [creq EXCEPT ![o].pc = "live"]
                              /\ handed_out' = handed_out \cup {o}
                              /\ IF creq[o].http
                                 THEN /\ active_sessions' =
                                           [active_sessions EXCEPT ![session_id[o]] = o]
                                      /\ is_active' = [is_active EXCEPT ![o] = TRUE]
                                      /\ key_order' = Append(key_order, session_id[o])
                                      /\ created_at' = [created_at EXCEPT ![o] = now]
                                 ELSE UNCHANGED << active_sessions, is_active,
                                                   mapOrderVars >>
                         ELSE /\ CreateFails(o)
                              /\ UNCHANGED << handed_out, active_sessions, is_active,
                                              mapOrderVars >>
                /\ UNCHANGED << room, audio_source >>
    /\ UNCHANGED << pipeline_sessions, main_history, ereq, session_id, dup, end_ok >>
    /\ UNCHANGED << conversation_history, is_processing, audio_buffer, silence_duration, quiet,
                    pc, cyc, nframes, late, scen >>
    /\ UNCHANGED wsVars /\ UNCHANGED cycleGhosts
    /\ UNCHANGED extraVars

\* the room reports a subscribed audio track: _on_track_subscribed spawns the
\* task that runs _process_audio_stream
TrackSubscribed(o, t) ==
    /\ room[o] = "connected"
    /\ pc[<<o, t>>] = "none"
    /\ pc' = [pc EXCEPT ![<<o, t>>] = "recv"]
    /\ UNCHANGED registryVars /\ UNCHANGED wsVars /\ UNCHANGED cycleGhosts
    /\ UNCHANGED << main_history, conversation_history, is_processing, audio_buffer,
                    silence_duration, quiet, cyc, nframes, late, scen >>
    /\ UNCHANGED extraVars

\* ------------------------------------------------------- audio ingestion
\* (mutant) frames are buffered during processing too
DroppingNever(o) == FALSE

\* _process_audio_stream, line 131: the frame is skipped
Dropping(o) == is_processing[o]

\* (mutant) a speech frame does not reset the silence
SilenceAfterSpeechKept(silence, f) == IF f.silent THEN silence + f.dur ELSE silence

\* _process_audio_stream, lines 141-144
SilenceAfter(silence, f) == IF f.silent THEN silence + f.dur ELSE 0

\* the contiguous silence a session has heard since the last speech frame or
\* cleanup: over all frames its tasks received, and over the frames they
\* received while the session was not processing
Heard(q, f, processing) ==
    [q EXCEPT !.all = IF f.silent THEN q.all + f.dur ELSE 0,
              !.taken = IF processing THEN q.taken
                        ELSE IF f.silent THEN q.taken + f.dur ELSE 0]

\* the frames a session's tasks received while it was not processing, in
\* arrival order, since the last cycle's cleanup or the session's start
FramesTaken(q, id, processing) ==
    IF processing THEN q ELSE [q EXCEPT !.frames = Append(@, id)]

\* the cleanup of a cycle that transcribed audio_bytes starts a new record
AfterCycle(q, audio_bytes) ==
    [all |-> 0, taken |-> 0, frames |-> <<>>,
     done |-> q.done \cup {audio_bytes[i] : i \in 1..Len(audio_bytes)}]

\* (mutant) the cycle transcribes only what was buffered last
AudioBytesLast(buf) == <<buf[Len(buf)]>>

\* _process_speech, line 182: the cycle's audio is a copy of the buffer
AudioBytes(buf) == buf

\* (mutant) the threshold has to be exceeded
TriggerReachedLate(sil, buf) == sil > max_silence_duration /\ Len(buf) > 0

\* _process_audio_stream, line 147: enough silence and something buffered
TriggerReached(sil, buf) == sil >= max_silence_duration /\ Len(buf) > 0

\* _process_speech, line 174: the early return is not taken
ProcessSpeechGuard(o, buf) == ~is_processing[o] /\ Len(buf) # 0

\* (mutant) the flag is not set when a cycle starts
SetProcessingForgotten(o) == is_processing

\* _process_speech, line 177
SetProcessing(o) == [is_processing EXCEPT ![o] = TRUE]

\* the silence scenario of a session: it starts when a speech frame is
\* buffered, and counts the silence fed since, the cycles started and the
\* transcript notifications fired
ScenAfterFrame(o, f, ingested, starts) ==
    IF ~f.silent
    THEN IF ingested THEN [NoScenario EXCEPT !.on = TRUE] ELSE NoScenario
    ELSE IF ~scen[o].on THEN scen[o]
    ELSE IF scen[o].fed + f.dur > ScenarioSilence THEN NoScenario
    ELSE [scen[o] EXCEPT !.fed = @ + f.dur,
                         !.started = @ + (IF starts THEN 1 ELSE 0)]

\* the audio-stream task of track t receives the next frame of its stream and
\* runs the loop body, up to the first await of _process_speech if it calls it
Ingest(o, t) ==
    /\ pc[<<o, t>>] = "recv"
    /\ room[o] = "connected"
    /\ nframes < MaxFrames
    /\ \E f \in FrameInputs :
         LET id == nframes + 1
             buf == Append(audio_buffer[o], id)
             sil == SilenceAfter(silence_duration[o], f)
             starts == ~Dropping(o) /\ TriggerReached(sil, buf) /\ ProcessSpeechGuard(o, buf)
         IN /\ nframes' = id
            /\ quiet' = [quiet EXCEPT ![o] = FramesTaken(Heard(@, f, is_processing[o]), id, is_processing[o])]
            /\ late' = IF is_processing[o] THEN late \cup {id} ELSE late
            /\ scen' = [scen EXCEPT ![o] = ScenAfterFrame(o, f, ~Dropping(o), starts)]
            /\ IF Dropping(o)
               THEN UNCHANGED << audio_buffer, silence_duration >>
               ELSE /\ audio_buffer' = [audio_buffer EXCEPT ![o] = buf]
                    /\ silence_duration' = [silence_duration EXCEPT ![o] = sil]
            /\ IF starts
               THEN /\ is_processing' = SetProcessing(o)
                    /\ cyc' = [cyc EXCEPT ![<<o, t>>] = [NoLocals EXCEPT !.audio_bytes = AudioBytes(buf)]]
                    /\ pc' = [pc EXCEPT ![<<o, t>>] = "stt"]
                    /\ cycles' = [cycles EXCEPT ![o] = @ + 1]
                    /\ calls' = [calls EXCEPT ![o].stt = @ + 1]
               ELSE UNCHANGED << is_processing, cyc, pc, cycles, calls >>
    /\ UNCHANGED registryVars /\ UNCHANGED wsVars
    /\ UNCHANGED << main_history, conversation_history, notif, stt_result, gen_result >>
    /\ UNCHANGED extraVars

\* (mutant) no finally block: the session stays in processing
FinishCycleBusy(o, t) ==
    /\ UNCHANGED << audio_buffer, silence_duration, quiet, is_processing >>
    /\ pc' = [pc EXCEPT ![<<o, t>>] = "recv"]
    /\ cyc' = [cyc EXCEPT ![<<o, t>>] = NoLocals]

\* ------------------------------------------------------ processing cycle
\* _process_speech, lines 231-235: the finally block, then the task is back in
\* its loop waiting for the next frame
FinishCycle(o, t) ==
    /\ audio_buffer' = [audio_buffer EXCEPT ![o] = <<>>]
    /\ silence_duration' = [silence_duration EXCEPT ![o] = 0]
    /\ quiet' = [quiet EXCEPT ![o] = AfterCycle(@, cyc[<<o, t>>].audio_bytes)]
    /\ is_processing' = [is_processing EXCEPT ![o] = FALSE]
    /\ pc' = [pc EXCEPT ![<<o, t>>] = "recv"]
    /\ cyc' = [cyc EXCEPT ![<<o, t>>] = NoLocals]

\* (mutant) no except block: the finally block runs, then the exception ends
\* the loop of _process_audio_stream
CycleFailsEscapes(o, t) ==
    /\ audio_buffer' = [audio_buffer EXCEPT ![o] = <<>>]
    /\ silence_duration' = [silence_duration EXCEPT ![o] = 0]
    /\ quiet' = [quiet EXCEPT ![o] = AfterCycle(@, cyc[<<o, t>>].audio_bytes)]
    /\ is_processing' = [is_processing EXCEPT ![o] = FALSE]
    /\ pc' = [pc EXCEPT ![<<o, t>>] = "ended"]
    /\ cyc' = [cyc EXCEPT ![<<o, t>>] = NoLocals]

\* _process_speech, lines 228-235: an exception of a step is logged by the
\* except block, the finally block runs and _process_speech returns normally
CycleFails(o, t) == FinishCycle(o, t)

\* (mutant) the empty-transcript check is missing
EmptyTranscriptNever(transcript) == FALSE

\* _process_speech, line 185: not transcript.strip()
EmptyTranscript(transcript) == Strip(transcript) = <<>>

\* (mutant) one history list shared by all sessions
AppendHistoryShared(o, turn) == [p \in Objs |-> Append(conversation_history[p], turn)]

\* list.append on the history of session o
AppendHistory(o, turn) == [conversation_history EXCEPT ![o] = Append(@, turn)]

\* websocket.send_text on connection w succeeds
SendOk(w) == ws[w].state = "open"

\* transcribe_audio returns (lines 183-205)
SttReturn(o, t) ==
    /\ pc[<<o, t>>] = "stt"
    /\ \E out \in SttOutcomes :
         LET transcript == transcribe_audio(out) IN
         /\ stt_result' = [stt_result EXCEPT ![o] = out]
         /\ IF EmptyTranscript(transcript)
            THEN /\ FinishCycle(o, t)
                 /\ scen' = [scen EXCEPT ![o].clean = FALSE]
                 /\ UNCHANGED << conversation_history, main_history, notif, calls >>
            ELSE /\ conversation_history' = AppendHistory(o, Turn("user", transcript))
                 /\ UNCHANGED << audio_buffer, silence_duration, quiet, is_processing >>
                 /\ IF on_transcript[o] # NoConn
                    THEN \* on_transcript(transcript) runs up to its send_text
                         /\ main_history' = [main_history EXCEPT ![o] =
                                                Append(@, Turn("user", transcript))]
                         /\ notif' = [notif EXCEPT ![o] =
                                         Append(@, <<"transcript", cycles[o]>>)]
                         /\ scen' = [scen EXCEPT ![o].fired = @ + 1]
                         /\ pc' = [pc EXCEPT ![<<o, t>>] = "obs_t"]
                         /\ cyc' = [cyc EXCEPT ![<<o, t>>].transcript = transcript,
                                               ![<<o, t>>].obs = on_transcript[o]]
                         /\ UNCHANGED calls
                    ELSE /\ pc' = [pc EXCEPT ![<<o, t>>] = "gen"]
                         /\ cyc' = [cyc EXCEPT ![<<o, t>>].transcript = transcript]
                         /\ calls' = [calls EXCEPT ![o].gen = @ + 1]
                         /\ scen' = [scen EXCEPT ![o].clean = FALSE]
                         /\ UNCHANGED << main_history, notif >>
    /\ UNCHANGED registryVars /\ UNCHANGED wsVars
    /\ UNCHANGED << nframes, late, cycles, gen_result >>
    /\ UNCHANGED extraVars

\* on_transcript returns or raises (lines 201-205)
ObsTReturn(o, t) ==
    /\ pc[<<o, t>>] = "obs_t"
    /\ IF SendOk(cyc[<<o, t>>].obs)
       THEN /\ pc' = [pc EXCEPT ![<<o, t>>] = "gen"]
            /\ cyc' = [cyc EXCEPT ![<<o, t>>].obs = NoConn]
            /\ calls' = [calls EXCEPT ![o].gen = @ + 1]
            /\ UNCHANGED << audio_buffer, silence_duration, quiet, is_processing, scen >>
       ELSE /\ CycleFails(o, t)
            /\ scen' = [scen EXCEPT ![o].clean = FALSE]
            /\ UNCHANGED calls
    /\ UNCHANGED registryVars /\ UNCHANGED wsVars
    /\ UNCHANGED << main_history, conversation_history, nframes, late, cycles, notif,
                    stt_result, gen_result >>
    /\ UNCHANGED extraVars

\* generate_response returns the reply, or the fallback text when the
\* generator failed (lines 205-223)
GenReturn(o, t) ==
    /\ pc[<<o, t>>] = "gen"
    /\ \E out \in GenOutcomes :
         LET ai_response == generate_response(out) IN
         /\ gen_result' = [gen_result EXCEPT ![o] = out]
         /\ conversation_history' = AppendHistory(o, Turn("assistant", ai_response))
         /\ IF on_ai_response[o] # NoConn
            THEN /\ main_history' = [main_history EXCEPT ![o] =
                                        Append(@, Turn("assistant", ai_response))]
                 /\ notif' = [notif EXCEPT ![o] = Append(@, <<"response", cycles[o]>>)]
                 /\ pc' = [pc EXCEPT ![<<o, t>>] = "obs_r"]
                 /\ cyc' = [cyc EXCEPT ![<<o, t>>].ai_response = ai_response,
                                       ![<<o, t>>].obs = on_ai_response[o]]
                 /\ UNCHANGED calls
            ELSE /\ pc' = [pc EXCEPT ![<<o, t>>] = "tts"]
                 /\ cyc' = [cyc EXCEPT ![<<o, t>>].ai_response = ai_response]
                 /\ calls' = [calls EXCEPT ![o].tts = @ + 1]
                 /\ UNCHANGED << main_history, notif >>
    /\ UNCHANGED registryVars /\ UNCHANGED wsVars
    /\ UNCHANGED << audio_buffer, silence_duration, quiet, is_processing, nframes, late,
                    cycles, stt_result, scen >>
    /\ UNCHANGED extraVars

\* on_ai_response returns or raises (lines 219-223)
ObsRReturn(o, t) ==
    /\ pc[<<o, t>>] = "obs_r"
    /\ IF SendOk(cyc[<<o, t>>].obs)
       THEN /\ pc' = [pc EXCEPT ![<<o, t>>] = "tts"]
            /\ cyc' = [cyc EXCEPT ![<<o, t>>].obs = NoConn]
            /\ calls' = [calls EXCEPT ![o].tts = @ + 1]
            /\ UNCHANGED << audio_buffer, silence_duration, quiet, is_processing >>
       ELSE /\ CycleFails(o, t)
            /\ UNCHANGED calls
    /\ UNCHANGED registryVars /\ UNCHANGED wsVars
    /\ UNCHANGED << main_history, conversation_history, nframes, late, cycles, notif,
                    stt_result, gen_result, scen >>
    /\ UNCHANGED extraVars

\* text_to_speech returns n frames' worth of audio, none when it failed;
\* _play_audio then runs up to its first capture_frame (lines 223-226, 237-267)
TtsReturn(o, t) ==
    /\ pc[<<o, t>>] = "tts"
    /\ \E n \in 0..MaxPlayFrames :
         IF n > 0 /\ audio_source[o]
         THEN /\ pc' = [pc EXCEPT ![<<o, t>>] = "play"]
              /\ cyc' = [cyc EXCEPT ![<<o, t>>].frames_left = n]
              /\ UNCHANGED << audio_buffer, silence_duration, quiet, is_processing >>
         ELSE FinishCycle(o, t)
    /\ UNCHANGED registryVars /\ UNCHANGED wsVars /\ UNCHANGED cycleGhosts
    /\ UNCHANGED << main_history, conversation_history, nframes, late, scen >>
    /\ UNCHANGED extraVars

\* capture_frame returns or raises; after the 20 ms sleep the loop goes on with
\* the next frame, which raises when audio_source has become None (lines 257-273)
PlayStep(o, t) ==
    /\ pc[<<o, t>>] = "play"
    /\ \E ok \in BOOLEAN :
         IF ok /\ cyc[<<o, t>>].frames_left > 1 /\ audio_source[o]
         THEN /\ cyc' = [cyc EXCEPT ![<<o, t>>].frames_left = @ - 1]
              /\ UNCHANGED << pc, audio_buffer, silence_duration, quiet, is_processing >>
         ELSE FinishCycle(o, t)
    /\ UNCHANGED registryVars /\ UNCHANGED wsVars /\ UNCHANGED cycleGhosts
    /\ UNCHANGED << main_history, conversation_history, nframes, late, scen >>
    /\ UNCHANGED extraVars

\* --------------------------------------------------- WebSocket connections
\* no closure made by an earlier connection of slot w is still referenced
Unreferenced(w) ==
    /\ \A o \in Objs : on_transcript[o] # w /\ on_ai_response[o] # w
    /\ \A x \in TaskIds : cyc[x].obs # w

\* websocket_endpoint, lines 222-264: accept, look the session up, register
\* the two closures on its voice session
WsConnect(w, id) ==
    /\ ws[w].state = "closed"
    /\ Unreferenced(w)
    /\ active_sessions[id] # NoSession
    /\ LET o == active_sessions[id] IN
         /\ ws' = [ws EXCEPT ![w] = [state |-> "open", obj |-> o]]
         /\ on_transcript' = [on_transcript EXCEPT ![o] = w]
         /\ on_ai_response' = [on_ai_response EXCEPT ![o] = w]
         /\ wsm' = [wsm EXCEPT ![w] = NoWsm]
    /\ UNCHANGED registryVars /\ UNCHANGED cycleGhosts
    /\ UNCHANGED << main_history, conversation_history, is_processing, audio_buffer,
                    silence_duration, quiet, pc, cyc, nframes, late, scen >>
    /\ UNCHANGED extraVars

\* receive_text raises WebSocketDisconnect (lines 334-338)
WsDisconnect(w) ==
    /\ ws[w].state = "open"
    /\ wsm[w].pc = "recv"
    /\ ws' = [ws EXCEPT ![w].state = "closed"]
    /\ wsm' = [wsm EXCEPT ![w] = NoWsm]
    /\ on_transcript' = [on_transcript EXCEPT ![ws[w].obj] = NoConn]
    /\ on_ai_response' = [on_ai_response EXCEPT ![ws[w].obj] = NoConn]
    /\ UNCHANGED registryVars /\ UNCHANGED cycleGhosts
    /\ UNCHANGED << main_history, conversation_history, is_processing, audio_buffer,
                    silence_duration, quiet, pc, cyc, nframes, late, scen >>
    /\ UNCHANGED extraVars

\* the handler leaves its loop on any other exception, such as a message that
\* is not JSON or has no "type" (lines 339-344): it sends {"error": ...} and
\* returns; the closures stay registered
WsError(w) ==
    /\ ws[w].state = "open"
    /\ wsm[w].pc = "recv"
    /\ ws' = [ws EXCEPT ![w].state = "closed"]
    /\ wsm' = [wsm EXCEPT ![w] = [NoWsm EXCEPT !.sent = "raw_error", !.failure = "message"]]
    /\ UNCHANGED << on_transcript, on_ai_response >>
    /\ UNCHANGED registryVars /\ UNCHANGED cycleGhosts
    /\ UNCHANGED << main_history, conversation_history, is_processing, audio_buffer,
                    silence_duration, quiet, pc, cyc, nframes, late, scen >>
    /\ UNCHANGED extraVars

\* kinds of well-formed client messages (lines 272-332)
MessageTypes == {"ping", "audio_transcript", "status_update", "other"}
UserText == << "w" >>         \* message["text"] of an audio_transcript message

\* receive_text returns a well-formed message; the handler runs up to its
\* next await of receive_text or of generate_response
WsMessage(w, type) ==
    /\ ws[w].state = "open"
    /\ wsm[w].pc = "recv"
    /\ CASE type = "ping" ->
              /\ wsm' = [wsm EXCEPT ![w] = [NoWsm EXCEPT !.sent = "pong"]]
              /\ UNCHANGED main_history
         [] type = "status_update" ->
              /\ wsm' = [wsm EXCEPT ![w] = [NoWsm EXCEPT !.sent = "status"]]
              /\ UNCHANGED main_history
         [] type = "audio_transcript" ->
              /\ main_history' = [main_history EXCEPT ![ws[w].obj] =
                                     Append(@, Turn("user", UserText))]
              /\ wsm' = [wsm EXCEPT ![w] = [NoWsm EXCEPT !.pc = "gen", !.text = UserText,
                                                         !.sent = "transcript"]]
         [] OTHER ->
              /\ wsm' = [wsm EXCEPT ![w] = [NoWsm EXCEPT !.sent = wsm[w].sent]]
              /\ UNCHANGED main_history
    /\ UNCHANGED << ws, on_transcript, on_ai_response >>
    /\ UNCHANGED registryVars /\ UNCHANGED cycleGhosts /\ UNCHANGED extraVars
    /\ UNCHANGED << conversation_history, is_processing, audio_buffer,
                    silence_duration, quiet, pc, cyc, nframes, late, scen >>

\* generate_response returns to the handler: the reply, or the fallback text
\* when the generator failed; it is appended and sent as an ai_response event
\* (lines 296-315)
WsGenReturn(w) ==
    /\ ws[w].state = "open"
    /\ wsm[w].pc = "gen"
    /\ \E out \in GenOutcomes :
         LET ai_response == generate_response(out) IN
         /\ main_history' = [main_history EXCEPT ![ws[w].obj] =
                                Append(@, Turn("assistant", ai_response))]
         /\ wsm' = [wsm EXCEPT ![w] = [NoWsm EXCEPT
                       !.sent = "ai_response",
                       !.failure = IF out.raises THEN "generation" ELSE "none"]]
    /\ UNCHANGED << ws, on_transcript, on_ai_response >>
    /\ UNCHANGED registryVars /\ UNCHANGED cycleGhosts /\ UNCHANGED extraVars
    /\ UNCHANGED << conversation_history, is_processing, audio_buffer,
                    silence_duration, quiet, pc, cyc, nframes, late, scen >>

\* ----------------------------------------------------------- end requests
InFlight(r) == ereq[r].pc \in {"cleanup", "end_room"}

\* the other end requests working on the same id as r
Rivals(r, id) == { q \in EndReqs \ {r} : InFlight(q) /\ ereq[q].id = id }

Finished(r, result) == [ereq[r] EXCEPT !.pc = "done", !.result = result]

\* DELETE /api/session/{id}, lines 197-205, and VoicePipeline.end_session up to
\* the await of room.disconnect() in VoiceSession.cleanup
EndStart(r, id) ==
    /\ ereq[r].pc = "idle"
    /\ IF active_sessions[id] = NoSession
       THEN /\ ereq' = [ereq EXCEPT ![r] = [@ EXCEPT !.pc = "done", !.id = id,
                                                     !.result = "404"]]
            /\ UNCHANGED << is_active, audio_source, audio_buffer, pipeline_sessions >>
       ELSE LET rec == active_sessions[id]
                s == pipeline_sessions[id]
                raced == Rivals(r, id) # {}
                mark(e) == [q \in EndReqs |->
                              IF q \in Rivals(r, id) THEN [e[q] EXCEPT !.raced = TRUE]
                              ELSE e[q]]
            IN /\ is_active' = [is_active EXCEPT ![rec] = FALSE]
               /\ IF s = NoSession
                  THEN \* not in the pipeline's map: straight to end_room
                       /\ ereq' = [mark(ereq) EXCEPT ![r] =
                                     [@ EXCEPT !.pc = "end_room", !.id = id,
                                               !.raced = raced]]
                       /\ UNCHANGED << audio_source, audio_buffer, pipeline_sessions >>
                  ELSE IF room[s] # "none"
                  THEN /\ ereq' = [mark(ereq) EXCEPT ![r] =
                                     [@ EXCEPT !.pc = "cleanup", !.id = id, !.obj = s,
                                               !.raced = raced]]
                       /\ UNCHANGED << audio_source, audio_buffer, pipeline_sessions >>
                  ELSE \* no room: cleanup() has no await, the session is deleted
                       /\ audio_source' = [audio_source EXCEPT ![s] = FALSE]
                       /\ audio_buffer' = [audio_buffer EXCEPT ![s] = <<>>]
                       /\ pipeline_sessions' = [pipeline_sessions EXCEPT ![id] = NoSession]
                       /\ ereq' = [mark(ereq) EXCEPT ![r] =
                                     [@ EXCEPT !.pc = "end_room", !.id = id,
                                               !.raced = raced]]
    /\ UNCHANGED << active_sessions, main_history, creq, session_id, room, dup,
                    handed_out, end_ok >>
    /\ UNCHANGED wsVars /\ UNCHANGED cycleGhosts
    /\ UNCHANGED << conversation_history, is_processing, silence_duration, quiet, pc, cyc,
                    nframes, late, scen >>
    /\ UNCHANGED extraVars
    /\ UNCHANGED mapOrderVars

\* VoiceSession.cleanup after room.disconnect() returned or raised (lines
\* 279-292): an exception is logged and the rest of the try block is skipped
SessionCleanup(s, ok) ==
    IF ok
    THEN /\ room' = [room EXCEPT ![s] = "disconnected"]
         /\ audio_source' = [audio_source EXCEPT ![s] = FALSE]
         /\ audio_buffer' = [audio_buffer EXCEPT ![s] = <<>>]
    ELSE UNCHANGED << room, audio_source, audio_buffer >>

\* (mutant) cleanup() without its except block
CleanupRaisesOnError(ok) == ~ok

\* VoiceSession.cleanup, lines 291-292: the error of the disconnect is logged,
\* it does not leave cleanup()
CleanupRaises(ok) == FALSE

\* LiveKitService.end_room, lines 74-76: the error of delete_room is logged, it
\* does not leave end_room()
EndRoomRaises(ok) == FALSE

\* del self.active_sessions[session_id] raises KeyError (voice_pipeline.py, line 42)
PipelineDelRaises(id) == pipeline_sessions[id] = NoSession

\* (mutant) active_sessions.pop(session_id, None)
MainDelNeverRaises(id) == FALSE

\* del active_sessions[session_id] raises KeyError (main.py, line 211)
MainDelRaises(id) == active_sessions[id] = NoSession

\* cleanup() resumes after the disconnect, VoicePipeline.end_session deletes
\* the session (line 42) and main.end_session calls end_room (line 208)
EndCleanupReturn(r) ==
    /\ ereq[r].pc = "cleanup"
    /\ \E ok \in BOOLEAN :
         /\ SessionCleanup(ereq[r].obj, ok)
         /\ IF CleanupRaises(ok) \/ PipelineDelRaises(ereq[r].id)
            THEN \* the exception is caught at main.py line 215
                 /\ ereq' = [ereq EXCEPT ![r] = [Finished(r, "500") EXCEPT
                                                    !.tfail = @ \/ ~ok]]
                 /\ UNCHANGED pipeline_sessions
            ELSE /\ pipeline_sessions' = [pipeline_sessions EXCEPT ![ereq[r].id] = NoSession]
                 /\ ereq' = [ereq EXCEPT ![r] = [@ EXCEPT !.pc = "end_room",
                                                          !.tfail = @ \/ ~ok]]
    /\ UNCHANGED << active_sessions, is_active, main_history, creq, session_id, dup,
                    handed_out, end_ok >>
    /\ UNCHANGED wsVars /\ UNCHANGED cycleGhosts
    /\ UNCHANGED << conversation_history, is_processing, silence_duration, quiet, pc, cyc,
                    nframes, late, scen >>
    /\ UNCHANGED extraVars
    /\ UNCHANGED mapOrderVars

\* LiveKitService.end_room returns, having swallowed the error of delete_room
\* if there was one; then main.end_session deletes the record (lines 208-217)
EndRoomReturn(r) ==
    /\ ereq[r].pc = "end_room"
    /\ \E ok \in BOOLEAN :
         IF EndRoomRaises(ok) \/ MainDelRaises(ereq[r].id)
         THEN \* the exception is caught at line 215
              /\ ereq' = [ereq EXCEPT ![r] = [Finished(r, "500") EXCEPT
                                                 !.tfail = @ \/ ~ok]]
              /\ UNCHANGED << active_sessions, end_ok >>
         ELSE /\ active_sessions' = [active_sessions EXCEPT ![ereq[r].id] = NoSession]
              /\ ereq' = [ereq EXCEPT ![r] = [Finished(r, "ok") EXCEPT
                                                 !.tfail = @ \/ ~ok]]
              /\ end_ok' = [end_ok EXCEPT ![ereq[r].id] = Min(@ + 1, 2)]
    /\ UNCHANGED << pipeline_sessions, is_active, main_history, creq, session_id, room,
                    audio_source, dup, handed_out >>
    /\ UNCHANGED wsVars /\ UNCHANGED cycleGhosts
    /\ UNCHANGED << conversation_history, is_processing, audio_buffer, silence_duration, quiet,
                    pc, cyc, nframes, late, scen >>
    /\ UNCHANGED extraVars
    /\ UNCHANGED mapOrderVars

\* the response has been sent; the slot serves the next request
EndReset(r) ==
    /\ ereq[r].pc = "done"
    /\ ereq' = [ereq EXCEPT ![r] = [pc |-> "idle", id |-> NoSession, obj |-> NoSession,
                                    result |-> "none", tfail |-> FALSE, raced |-> FALSE]]
    /\ UNCHANGED << pipeline_sessions, active_sessions, is_active, main_history, creq,
                    session_id, room, audio_source, dup, handed_out, end_ok >>
    /\ UNCHANGED wsVars /\ UNCHANGED cycleGhosts
    /\ UNCHANGED << conversation_history, is_processing, audio_buffer, silence_duration, quiet,
                    pc, cyc, nframes, late, scen >>
    /\ UNCHANGED extraVars
    /\ UNCHANGED mapOrderVars

\* --------------------------------------------------- direct registry calls
\* a caller invokes VoicePipeline.create_session(session_id, room_name) itself
DirectCreate(id) ==
    /\ \E o \in Objs : creq[o].pc = "unborn"
    /\ PipelineCreateSession(NextObj, id, FALSE)
    /\ UNCHANGED << active_sessions, is_active, main_history, ereq,
                    room, audio_source, handed_out, end_ok >>
    /\ UNCHANGED << conversation_history, is_processing, audio_buffer, silence_duration, quiet,
                    pc, cyc, nframes, late, scen >>
    /\ UNCHANGED wsVars /\ UNCHANGED cycleGhosts
    /\ UNCHANGED extraVars
    /\ UNCHANGED mapOrderVars

\* ------------------------------------------------------------------ sweep
\* session_id in active_sessions (main.py)
Present(id) == active_sessions[id] # NoSession

\* len(active_sessions)
MapSize == Cardinality({ id \in Ids : Present(id) })

\* (mutant) session_age >= IDLE_TIMEOUT
IsIdleAtThreshold(id, current_time) ==
    /\ is_active[active_sessions[id]]
    /\ current_time - created_at[active_sessions[id]] >= IDLE_TIMEOUT

\* cleanup_idle_sessions, lines 111-115: the record is marked active and is
\* older than the timeout
IsIdle(id, current_time) ==
    /\ is_active[active_sessions[id]]
    /\ current_time - created_at[active_sessions[id]] > IDLE_TIMEOUT

\* the for loop of line 110 run from iterator position pos up to the next
\* record that passes lines 111-115: the index of its key, 0 when the
\* iterator is exhausted first
NextIdle(pos, current_time) ==
    LET c == { i \in (pos + 1)..Len(key_order) :
                 Present(key_order[i]) /\ IsIdle(key_order[i], current_time) }
    IN IF c = {} THEN 0 ELSE CHOOSE i \in c : \A j \in c : i <= j

\* (mutant) the loop of lines 135-137 is missing
SweepRemoveNothing(sessions_to_remove) == active_sessions

\* cleanup_idle_sessions, lines 135-137
SweepRemove(sessions_to_remove) ==
    [id \in Ids |-> IF id \in Range(sessions_to_remove) THEN NoSession
                    ELSE active_sessions[id]]

\* the fields VoiceSession.cleanup leaves behind (lines 279-292), see SessionCleanup
AfterCleanup(s, ok) ==
    IF ok THEN [room |-> [room EXCEPT ![s] = "disconnected"],
                audio_source |-> [audio_source EXCEPT ![s] = FALSE],
                audio_buffer |-> [audio_buffer EXCEPT ![s] = <<>>]]
    ELSE [room |-> room, audio_source |-> audio_source, audio_buffer |-> audio_buffer]

\* cleanup_idle_sessions goes on from the top of its for loop to its next
\* await or to its return; sw holds its locals, pl, src and buf the pipeline
\* map and the session fields as the part of the step before left them
SweepAdvance(k, sw, pl, src, buf) ==
    IF MapSize # sw.used
    THEN \* next() raises RuntimeError (dictionary changed size during
         \* iteration); nothing catches it, the request fails
         /\ sweep' = [sweep EXCEPT ![k] = [sw EXCEPT !.pc = "done", !.result = "500",
                                                       !.id = NoSession,
                                                       !.obj = NoSession]]
         /\ last_sweep' = NoLastSweep
         /\ pipeline_sessions' = pl
         /\ audio_source' = src
         /\ audio_buffer' = buf
         /\ UNCHANGED active_sessions
    ELSE LET i == NextIdle(sw.pos, sw.current_time) IN
         IF i = 0
         THEN \* lines 135-143
              /\ active_sessions' = SweepRemove(sw.sessions_to_remove)
              /\ sweep' = [sweep EXCEPT ![k] = [sw EXCEPT !.pc = "done", !.result = "ok",
                                                            !.id = NoSession,
                                                            !.obj = NoSession]]
              /\ last_sweep' = [valid |-> TRUE, cleaned |-> Range(sw.cleaned_sessions),
                                born |-> Len(key_order), time |-> sw.current_time]
              /\ pipeline_sessions' = pl
              /\ audio_source' = src
              /\ audio_buffer' = buf
         ELSE \* lines 116-118 and VoicePipeline.end_session up to its await
              LET id == key_order[i]
                  s == pl[id]
                  at == [sw EXCEPT !.pos = i, !.id = id, !.torn = @ \cup {id}]
              IN /\ UNCHANGED << active_sessions, last_sweep >>
                 /\ IF s = NoSession
                    THEN /\ sweep' = [sweep EXCEPT ![k] = [at EXCEPT !.pc = "end_room",
                                                                       !.obj = NoSession]]
                         /\ pipeline_sessions' = pl
                         /\ audio_source' = src
                         /\ audio_buffer' = buf
                    ELSE IF room[s] # "none"
                    THEN /\ sweep' = [sweep EXCEPT ![k] = [at EXCEPT !.pc = "cleanup",
                                                                       !.obj = s]]
                         /\ pipeline_sessions' = pl
                         /\ audio_source' = src
                         /\ audio_buffer' = buf
                    ELSE \* no room: cleanup() has no await, the session is deleted
                         /\ sweep' = [sweep EXCEPT ![k] = [at EXCEPT !.pc = "end_room",
                                                                       !.obj = NoSession]]
                         /\ pipeline_sessions' = [pl EXCEPT ![id] = NoSession]
                         /\ audio_source' = [src EXCEPT ![s] = FALSE]
                         /\ audio_buffer' = [buf EXCEPT ![s] = <<>>]

sweepFrame == << is_active, main_history, creq, ereq, session_id, dup, handed_out, end_ok,
                 mapOrderVars, now, conversation_history, is_processing,
                 silence_duration, quiet, pc, cyc, nframes, late, scen >>

\* POST /api/sessions/cleanup, lines 104-118
SweepStart(k) ==
    /\ sweep[k].pc = "idle"
    /\ SweepAdvance(k, [NoSweep EXCEPT !.current_time = now, !.used = MapSize,
                                       !.born = Len(key_order), !.prev = last_sweep],
                    pipeline_sessions, audio_source, audio_buffer)
    /\ UNCHANGED room
    /\ UNCHANGED sweepFrame /\ UNCHANGED wsVars /\ UNCHANGED cycleGhosts
    /\ UNCHANGED serviceVars

\* cleanup() resumes after the disconnect, VoicePipeline.end_session deletes the
\* session (voice_pipeline.py line 42); a KeyError there is caught at main.py
\* line 131 and the loop goes on, else end_room is called (line 121)
SweepCleanupReturn(k) ==
    /\ sweep[k].pc = "cleanup"
    /\ \E ok \in BOOLEAN :
         LET s == sweep[k].obj
             id == sweep[k].id
             after == AfterCleanup(s, ok)
         IN /\ room' = after.room
            /\ IF CleanupRaises(ok) \/ PipelineDelRaises(id)
               THEN SweepAdvance(k, [sweep[k] EXCEPT !.id = NoSession, !.obj = NoSession],
                                 pipeline_sessions, after.audio_source, after.audio_buffer)
               ELSE /\ sweep' = [sweep EXCEPT ![k].pc = "end_room", ![k].obj = NoSession]
                    /\ pipeline_sessions' = [pipeline_sessions EXCEPT ![id] = NoSession]
                    /\ audio_source' = after.audio_source
                    /\ audio_buffer' = after.audio_buffer
                    /\ UNCHANGED << active_sessions, last_sweep >>
    /\ UNCHANGED sweepFrame /\ UNCHANGED wsVars /\ UNCHANGED cycleGhosts
    /\ UNCHANGED serviceVars

\* end_room returns, having swallowed the error of delete_room if there was
\* one; the id is listed (lines 123-127) and the loop goes on
SweepEndRoomReturn(k) ==
    /\ sweep[k].pc = "end_room"
    /\ \E ok \in BOOLEAN :
         IF EndRoomRaises(ok)
         THEN SweepAdvance(k, [sweep[k] EXCEPT !.id = NoSession],
                           pipeline_sessions, audio_source, audio_buffer)
         ELSE SweepAdvance(k, [sweep[k] EXCEPT
                                 !.sessions_to_remove = Append(@, sweep[k].id),
                                 !.cleaned_sessions = Append(@, sweep[k].id),
                                 !.id = NoSession],
                           pipeline_sessions, audio_source, audio_buffer)
    /\ UNCHANGED room
    /\ UNCHANGED sweepFrame /\ UNCHANGED wsVars /\ UNCHANGED cycleGhosts
    /\ UNCHANGED serviceVars

\* the wall clock moves on
Tick ==
    /\ now < MaxTicks * ClockStep
    /\ now' = now + ClockStep
    /\ UNCHANGED << pipeline_sessions, active_sessions, is_active, creq, ereq,
                    session_id, room, audio_source, dup, handed_out, end_ok,
                    mapOrderVars, sweep, last_sweep >>
    /\ UNCHANGED wsVars /\ UNCHANGED cycleGhosts /\ UNCHANGED serviceVars
    /\ UNCHANGED << main_history, conversation_history, is_processing, audio_buffer,
                    silence_duration, quiet, pc, cyc, nframes, late, scen >>

\* ------------------------------------------------------------ POST /api/tts
\* request texts: all character sequences of at most MaxTextLen blanks and letters
TextsUpTo(n) == UNION { [1..k -> {" ", "a"}] : k \in 0..n }
Texts == TextsUpTo(MaxTextLen)

NoTtsReq == [pc |-> "idle", text |-> <<>>, status |-> 0, called |-> FALSE]

\* text_to_speech_endpoint, lines 373-375: whatever the try block raised,
\* an HTTPException included, is caught and raised again as a 500
RouteStatus(raised) == 500

\* the handler up to the await of ai_service.text_to_speech (lines 349-356)
TtsStart(text) ==
    /\ tts_req.pc = "idle"
    /\ IF Strip(text) = <<>>
       THEN \* line 353: HTTPException(400), raised inside the try block
            tts_req' = [pc |-> "done", text |-> text, status |-> RouteStatus(400),
                        called |-> FALSE]
       ELSE tts_req' = [pc |-> "synth", text |-> text, status |-> 0, called |-> TRUE]
    /\ UNCHANGED sessionVars /\ UNCHANGED << gen_call, stream >> /\ UNCHANGED cacheVars

\* text_to_speech returns the audio, b"" when the synthesizer failed
\* (lines 356-371)
TtsFinish ==
    /\ tts_req.pc = "synth"
    /\ \E audio_data \in BOOLEAN :
         tts_req' = [tts_req EXCEPT !.pc = "done",
                                    !.status = IF audio_data THEN 200 ELSE RouteStatus(500)]
    /\ UNCHANGED sessionVars /\ UNCHANGED << gen_call, stream >> /\ UNCHANGED cacheVars

\* the response has been sent; the route serves the next request
TtsReset ==
    /\ tts_req.pc = "done"
    /\ tts_req' = NoTtsReq
    /\ UNCHANGED sessionVars /\ UNCHANGED << gen_call, stream >> /\ UNCHANGED cacheVars

\* --------------------------------------- text_to_speech_streaming: chunks
\* texts are sequences of characters
IsPunct(c) == c \in {".", "!", "?"}
IsSpace(c) == c = " "         \* the whitespace of the request texts

MinOf(S) == CHOOSE x \in S : \A y \in S : x <= y

\* last index of the run of s that starts at i, a run being made of
\* terminators only or of other characters only
RunEnd(s, i) ==
    MinOf({ j \in i..Len(s) : j = Len(s) \/ IsPunct(s[j + 1]) # IsPunct(s[i]) })

\* re.split(r'([.!?]+)', text) from index i on, without the empty strings
\* (the loop of lines 419-427 does nothing for them)
RECURSIVE SentenceParts(_, _)
SentenceParts(s, i) ==
    IF i > Len(s) THEN <<>>
    ELSE LET j == RunEnd(s, i) IN << SubSeq(s, i, j) >> \o SentenceParts(s, j + 1)

\* (mutant) a sentence too short to stand alone is dropped, not carried over
CarryShortDropped(current) == <<>>

\* lines 422-425: a chunk that is not longer than min_sentence_len stays in
\* current_chunk
CarryShort(current) == current

\* the loop of lines 419-431 from part k on
RECURSIVE SentenceLoop(_, _, _, _)
SentenceLoop(parts, k, chunks, current) ==
    IF k > Len(parts)
    THEN IF Strip(current) # <<>> THEN Append(chunks, Strip(current)) ELSE chunks
    ELSE IF IsPunct(parts[k][1])
    THEN LET c == current \o parts[k] IN
         IF Strip(c) # <<>> /\ Len(Strip(c)) > min_sentence_len
         THEN SentenceLoop(parts, k + 1, Append(chunks, Strip(c)), <<>>)
         ELSE SentenceLoop(parts, k + 1, chunks, CarryShort(c))
    ELSE IF Strip(parts[k]) # <<>>
    THEN SentenceLoop(parts, k + 1, chunks, current \o parts[k])
    ELSE SentenceLoop(parts, k + 1, chunks, current)

\* lines 413-431
PrimarySplit(text) == SentenceLoop(SentenceParts(text, 1), 1, <<>>, <<>>)

\* the conjunctions of the pattern of lines 437 and 443
Conjunctions ==
    { <<"a", "n", "d">>,
      <<"b", "u", "t">>,
      <<"o", "r">>,
      <<"h", "o", "w", "e", "v", "e", "r">>,
      <<"t", "h", "e", "r", "e", "f", "o", "r", "e">>,
      <<"m", "e", "a", "n", "w", "h", "i", "l", "e">>,
      <<"a", "l", "s", "o">>,
      <<"b", "e", "c", "a", "u", "s", "e">>,
      <<"s", "i", "n", "c", "e">>,
      <<"w", "h", "i", "l", "e">>,
      <<"a", "l", "t", "h", "o", "u", "g", "h">> }

\* last index of the whitespace of s that starts at i
SpaceEnd(s, i) == MinOf({ j \in i..Len(s) : j = Len(s) \/ ~IsSpace(s[j + 1]) })

StartsWith(s, i, w) == i + Len(w) - 1 <= Len(s) /\ SubSeq(s, i, i + Len(w) - 1) = w

\* ,\s+ matches at i
CommaSpaceAt(s, i) == s[i] = "," /\ i < Len(s) /\ IsSpace(s[i + 1])

\* the conjunctions w for which ,\s+w\s+ matches at i
ConjunctionsAt(s, i) ==
    IF ~CommaSpaceAt(s, i) THEN {}
    ELSE LET j == SpaceEnd(s, i + 1)
         IN { w \in Conjunctions : /\ StartsWith(s, j + 1, w)
                                   /\ j + Len(w) + 1 <= Len(s)
                                   /\ IsSpace(s[j + Len(w) + 1]) }

\* last index of the separator the pattern of line 437 matches at i, 0 when
\* it does not match there
SeparatorEnd(s, i) ==
    IF ~CommaSpaceAt(s, i) THEN 0
    ELSE LET j == SpaceEnd(s, i + 1)
             c == ConjunctionsAt(s, i)
         IN IF c # {} THEN SpaceEnd(s, j + Len(CHOOSE w \in c : TRUE) + 1) ELSE j

\* re.split of line 437 from index start on: text parts and separators
\* alternate
RECURSIVE ClauseParts(_, _)
ClauseParts(s, start) ==
    LET i == MinOf({ j \in start..Len(s) : CommaSpaceAt(s, j) } \cup { Len(s) + 1 })
    IN IF i > Len(s) THEN << SubSeq(s, start, Len(s)) >>
       ELSE << SubSeq(s, start, i - 1), SubSeq(s, i, SeparatorEnd(s, i)) >>
               \o ClauseParts(s, SeparatorEnd(s, i) + 1)

\* line 443: part.endswith(',') or re.match(<comma and conjunction>, part)
IsPause(part) ==
    part # <<>> /\ (part[Len(part)] = "," \/ ConjunctionsAt(part, 1) # {})

\* the loop of lines 440-448 from part k on
RECURSIVE ClauseLoop(_, _, _, _)
ClauseLoop(parts, k, chunks, current) ==
    IF k > Len(parts)
    THEN IF Strip(current) # <<>> THEN Append(chunks, Strip(current)) ELSE chunks
    ELSE LET c == current \o parts[k] IN
         IF IsPause(parts[k]) /\ Len(Strip(c)) > min_clause_len
         THEN ClauseLoop(parts, k + 1, Append(chunks, Strip(c)), <<>>)
         ELSE ClauseLoop(parts, k + 1, chunks, c)

\* lines 435-448
SecondarySplit(text) == ClauseLoop(ClauseParts(text, 1), 1, <<>>, <<>>)

\* last index of the word of s that starts at i
WordEnd(s, i) == MinOf({ j \in i..Len(s) : j = Len(s) \/ IsSpace(s[j + 1]) })

\* str.split() from index i on
RECURSIVE Words(_, _)
Words(s, i) ==
    IF i > Len(s) THEN <<>>
    ELSE IF IsSpace(s[i]) THEN Words(s, SpaceEnd(s, i) + 1)
    ELSE << SubSeq(s, i, WordEnd(s, i)) >> \o Words(s, WordEnd(s, i) + 1)

\* current + (sep if current else "") + part
Joined(current, sep, part) == current \o (IF current # <<>> THEN << sep >> ELSE <<>>) \o part

\* the loop of lines 456-472 from word k on
RECURSIVE WordLoop(_, _, _, _)
WordLoop(words, k, chunks, current) ==
    IF k > Len(words)
    THEN IF current # <<>> THEN Append(chunks, current) ELSE chunks
    ELSE IF Len(Joined(current, " ", words[k])) <= word_chunk_limit
    THEN WordLoop(words, k + 1, chunks, Joined(current, " ", words[k]))
    ELSE IF current # <<>>
    THEN WordLoop(words, k + 1,
                  Append(chunks, IF Len(chunks) < Len(words) \div pause_divisor
                                 THEN Append(current, ",") ELSE current),
                  words[k])
    ELSE WordLoop(words, k + 1, chunks, words[k])

\* lines 452-472
WordSplit(text) == WordLoop(Words(text, 1), 1, <<>>, <<>>)

\* chunk.split(',') from index start on
RECURSIVE CommaFields(_, _)
CommaFields(s, start) ==
    LET i == MinOf({ j \in start..Len(s) : s[j] = "," } \cup { Len(s) + 1 })
    IN IF i > Len(s) THEN << SubSeq(s, start, Len(s)) >>
       ELSE << SubSeq(s, start, i - 1) >> \o CommaFields(s, i + 1)

\* the loop of lines 486-496 from part k on, appending to out
RECURSIVE CommaPieces(_, _, _, _)
CommaPieces(parts, k, out, current) ==
    IF k > Len(parts)
    THEN IF current # <<>> THEN Append(out, current) ELSE out
    ELSE IF Len(Joined(current, ",", parts[k])) <= chunk_limit
    THEN CommaPieces(parts, k + 1, out, Joined(current, ",", parts[k]))
    ELSE CommaPieces(parts, k + 1,
                     IF current # <<>> THEN Append(out, Append(current, ",")) ELSE out,
                     Strip(parts[k]))

\* the loop of lines 502-512 from word k on, appending to out
RECURSIVE WordPieces(_, _, _, _)
WordPieces(words, k, out, current) ==
    IF k > Len(words)
    THEN IF current # <<>> THEN Append(out, current) ELSE out
    ELSE IF Len(Joined(current, " ", words[k])) <= chunk_limit
    THEN WordPieces(words, k + 1, out, Joined(current, " ", words[k]))
    ELSE WordPieces(words, k + 1,
                    IF current # <<>> THEN Append(out, current) ELSE out,
                    words[k])

\* the loop of lines 476-512 from chunk k on, appending to safe_chunks
RECURSIVE SafeChunks(_, _, _)
SafeChunks(chunks, k, safe_chunks) ==
    IF k > Len(chunks) THEN safe_chunks
    ELSE IF Len(chunks[k]) <= chunk_limit
    THEN SafeChunks(chunks, k + 1, Append(safe_chunks, chunks[k]))
    ELSE IF "," \in Range(chunks[k])
    THEN SafeChunks(chunks, k + 1, CommaPieces(CommaFields(chunks[k], 1), 1, safe_chunks, <<>>))
    ELSE SafeChunks(chunks, k + 1, WordPieces(Words(chunks[k], 1), 1, safe_chunks, <<>>))

\* the chunks of text_to_speech_streaming (lines 413-514)
Chunks(text) ==
    LET primary == PrimarySplit(text)
        secondary == IF Len(primary) <= 1 /\ Len(text) > secondary_min_len
                     THEN SecondarySplit(text) ELSE primary
        chunks == IF Len(secondary) <= 1 /\ Len(Words(text, 1)) > min_words
                  THEN WordSplit(text) ELSE secondary
        safe_chunks == SafeChunks(chunks, 1, <<>>)
    IN IF safe_chunks # <<>> THEN safe_chunks
       ELSE << SubSeq(text, 1, Min(chunk_limit, Len(text))) >>

\* ---- request texts
Alphabet == << "a", "b", "c", "d", "e", "f", "g", "h", "i", "j", "k", "l", "m", "n",
               "o", "p", "q", "r", "s", "t", "u" >>

\* a word of n letters c
Word(n, c) == [k \in 1..n |-> c]

\* words number j to n of a phrase of n words of l letters each, with single
\* blanks between them; every word has a letter of its own, those of a phrase
\* following Alphabet[base]
RECURSIVE PhraseFrom(_, _, _, _)
PhraseFrom(j, n, l, base) ==
    IF j = n THEN Word(l, Alphabet[base + j])
    ELSE Word(l, Alphabet[base + j]) \o << " " >> \o PhraseFrom(j + 1, n, l, base)
Phrase(n, l, base) == PhraseFrom(1, n, l, base)

\* word lengths around the limits of the chunker
WordLens == { 3, min_sentence_len + 5, word_chunk_limit + 5, chunk_limit + 1 }
PhraseShapes == { << 1, l >> : l \in WordLens }
                \cup { << 3, min_sentence_len + 5 >>, << 3, word_chunk_limit + 5 >>,
                       << min_words + 1, 3 >>, << min_words + 1, min_sentence_len + 5 >> }
ClauseSeparators == { << ",", " " >>, << "," >>, << ",", "," >>,
                      << ",", " ", "a", "n", "d", " " >> }
Terminators == { <<>>, << "." >> }

\* one phrase, or two phrases with a separator between them, with or without
\* a terminator
Sentences ==
    { Phrase(p[1], p[2], 0) \o t : p \in PhraseShapes, t \in Terminators }
    \cup { Phrase(p[1], p[2], 0) \o s \o Phrase(q[1], q[2], min_words + 1) \o t :
             p \in PhraseShapes, s \in ClauseSeparators, q \in PhraseShapes,
             t \in Terminators }
SecondSentences ==
    { <<>>, << " " >> \o Word(3, Alphabet[Len(Alphabet)]) \o << "." >>,
      << " " >> \o Word(min_sentence_len + 5, Alphabet[Len(Alphabet)]) \o << "." >> }
BlankTexts == { <<>>, << " " >> }
ChunkTexts == { a \o b : a \in Sentences, b \in SecondSentences } \cup BlankTexts

\* ---- the run of the generator
NoStream == [pc |-> "idle", text |-> <<>>, chunks |-> <<>>, i |-> 0, yielded |-> <<>>]

\* index of the first chunk from i on that the loop of line 518 does not skip
\* (lines 519-520), Len(chunks) + 1 when there is none
RECURSIVE NextChunk(_, _)
NextChunk(chunks, i) ==
    IF i > Len(chunks) \/ Strip(chunks[i]) # <<>> THEN i ELSE NextChunk(chunks, i + 1)

\* the generator up to its first await (lines 406-538): it splits the text
\* and asks for the audio of the first chunk it does not skip
StreamStart(text) ==
    /\ stream.pc = "idle"
    /\ LET chunks == Chunks(text)
           i == NextChunk(chunks, 1)
       IN stream' = [pc |-> IF i > Len(chunks) THEN "done" ELSE "speech",
                     text |-> text, chunks |-> chunks, i |-> i, yielded |-> <<>>]
    /\ UNCHANGED sessionVars /\ UNCHANGED << gen_call, tts_req >> /\ UNCHANGED cacheVars

\* audio.speech.create returns or raises (lines 538-554, 558-561)
StreamSpeechReturn ==
    /\ stream.pc = "speech"
    /\ \E ok \in BOOLEAN :
         IF ok
         THEN LET i == NextChunk(stream.chunks, stream.i + 1)
              IN stream' = [stream EXCEPT
                     !.yielded = Append(@, [chunk_index |-> stream.i - 1,
                                            total_chunks |-> Len(stream.chunks),
                                            text |-> stream.chunks[stream.i],
                                            is_final |-> stream.i = Len(stream.chunks)]),
                     !.i = i,
                     !.pc = IF i > Len(stream.chunks) THEN "done" ELSE "speech"]
         ELSE stream' = [stream EXCEPT !.pc = "fallback"]
    /\ UNCHANGED sessionVars /\ UNCHANGED << gen_call, tts_req >> /\ UNCHANGED cacheVars

\* text_to_speech of the whole text returns (lines 561-569)
StreamFallbackReturn ==
    /\ stream.pc = "fallback"
    /\ \E fallback_audio \in BOOLEAN :
         stream' = [stream EXCEPT
             !.pc = "done",
             !.yielded = IF fallback_audio
                         THEN Append(@, [chunk_index |-> 0, total_chunks |-> 1,
                                         text |-> stream.text, is_final |-> TRUE])
                         ELSE @]
    /\ UNCHANGED sessionVars /\ UNCHANGED << gen_call, tts_req >> /\ UNCHANGED cacheVars

\* the generator is exhausted; the service serves the next call
StreamReset ==
    /\ stream.pc = "done"
    /\ stream' = NoStream
    /\ UNCHANGED sessionVars /\ UNCHANGED << gen_call, tts_req >> /\ UNCHANGED cacheVars

\* --------------------------------------------- _optimize_response_for_voice
\* str.replace(old, new) on s from index start on
RECURSIVE ReplaceFrom(_, _, _, _)
ReplaceFrom(s, start, old, new) ==
    LET i == MinOf({ j \in start..(Len(s) - Len(old) + 1) :
                       SubSeq(s, j, j + Len(old) - 1) = old } \cup { Len(s) + 1 })
    IN IF i > Len(s) THEN SubSeq(s, start, Len(s))
       ELSE SubSeq(s, start, i - 1) \o new \o ReplaceFrom(s, i + Len(old), old, new)

\* lines 313-315
CollapsePunctuation(response) ==
    ReplaceFrom(ReplaceFrom(ReplaceFrom(response, 1, << ".", ".", "." >>, << "." >>),
                            1, << "!", "!" >>, << "!" >>),
                1, << "?", "?" >>, << "?" >>)

\* line 319: the non-blank spans between runs of terminators, stripped
sentences(response) ==
    LET spans == SelectSeq(SentenceParts(response, 1),
                           LAMBDA p : ~IsPunct(p[1]) /\ Strip(p) # <<>>)
    IN [k \in 1..Len(spans) |-> Strip(spans[k])]

\* line 325, re.findall(r'[^.!?]*[.!?]', response) from index start on: each
\* match runs up to the next single terminator and includes it
RECURSIVE original_parts(_, _)
original_parts(response, start) ==
    LET i == MinOf({ j \in start..Len(response) : IsPunct(response[j]) }
                   \cup { Len(response) + 1 })
    IN IF i > Len(response) THEN <<>>
       ELSE << SubSeq(response, start, i) >> \o original_parts(response, i + 1)

\* ' '.join(parts)
RECURSIVE JoinBlank(_, _)
JoinBlank(parts, k) ==
    IF k > Len(parts) THEN <<>>
    ELSE IF k = Len(parts) THEN parts[k]
    ELSE parts[k] \o << " " >> \o JoinBlank(parts, k + 1)

\* lines 324-330: the first sentences with the punctuation of original_parts
Reconstructed(kept, parts) ==
    [i \in 1..Len(kept) |-> IF i <= Len(parts) THEN Strip(parts[i])
                            ELSE Append(kept[i], ".")]

\* lines 322-331
KeepFirstSentences(response) ==
    IF Len(sentences(response)) > max_sentences
    THEN JoinBlank(Reconstructed(SubSeq(sentences(response), 1, max_sentences),
                                 original_parts(response, 1)), 1)
    ELSE response

\* lines 334-344; last_punct is the index of str.rfind plus one, 0 when there
\* is no terminator
TruncateLong(response) ==
    IF Len(response) > hard_cap
    THEN LET truncated == SubSeq(response, 1, truncate_at)
             last_punct == IF \E j \in 1..Len(truncated) : IsPunct(truncated[j])
                           THEN CHOOSE j \in 1..Len(truncated) :
                                   /\ IsPunct(truncated[j])
                                   /\ \A k \in (j + 1)..Len(truncated) : ~IsPunct(truncated[k])
                           ELSE 0
         IN IF last_punct - 1 > min_break
            THEN SubSeq(truncated, 1, last_punct)
            ELSE RStrip(truncated) \o << ".", ".", "." >>
    ELSE response

\* lines 347-351
EndWithPunctuation(response) ==
    LET r == Strip(response)
    IN IF r # <<>> /\ ~IsPunct(r[Len(r)]) THEN Append(r, ".") ELSE r

\* AIService._optimize_response_for_voice (lines 310-353)
optimize_response_for_voice(response) ==
    EndWithPunctuation(TruncateLong(KeepFirstSentences(CollapsePunctuation(response))))

\* ---- contents of the completion
\* n sentences of one word of l letters each, the first followed by the
\* terminators first, the others by a full stop, the last by last
RECURSIVE SentencesFrom(_, _, _, _, _)
SentencesFrom(j, n, l, first, last) ==
    Word(l, Alphabet[j])
    \o (IF j = n THEN last ELSE (IF j = 1 THEN first ELSE << "." >>)
                                \o << " " >> \o SentencesFrom(j + 1, n, l, first, last))
SentenceLens == { 3, hard_cap \div max_sentences + 20, hard_cap + 50 }
FirstTerminators == { << "." >>, << "!" >>, << "?", "!" >>, << ".", ".", "." >>,
                      << "!", "!" >> }
LastTerminators == { <<>>, << "?" >> }
Contents ==
    { SentencesFrom(1, n, l, first, last) :
        n \in 1..MaxSentences, l \in SentenceLens, first \in FirstTerminators,
        last \in LastTerminators }

\* contents of one or two sentences whose length is around the hard cap
CapLens == { 3, hard_cap - 1, hard_cap, hard_cap + 1 }
CapContents ==
    { SentencesFrom(1, n, l, first, last) :
        n \in 1..2, l \in CapLens, first \in FirstTerminators, last \in LastTerminators }
CapOutcomes ==
    { [raises |-> TRUE, text |-> <<>>] } \cup { [raises |-> FALSE, text |-> c] : c \in CapContents }

\* what the chat completion does: it raises, or it sends a content
CompletionOutcomes ==
    { [raises |-> TRUE, text |-> <<>>] } \cup { [raises |-> FALSE, text |-> c] : c \in Contents }

\* ------------------------------------------ generate_response: the call
\* the inputs of a call: the turn the caller has just appended to the history,
\* or else words not said before, or the words of the last turn said again
UserInputs(history, pre_appended) ==
    IF history = <<>> THEN {FreshInput}
    ELSE IF pre_appended THEN {history[Len(history)].content}
    ELSE {FreshInput, history[Len(history)].content}

\* generate_response(user_input, conversation_history) up to the await of the
\* chat completion (lines 191-276), for an input that is not answered from
\* the cache; the caller has appended the input to the history, or passes a
\* new one
GenerateCall(history, pre_appended, memory_context) ==
    /\ gen_call.pc = "idle"
    /\ pre_appended => history # <<>>
    /\ \E user_input \in UserInputs(history, pre_appended) :
         gen_call' = [pc |-> "sent", user_input |-> user_input,
                      conversation_history |-> history,
                      memory_context |-> memory_context,
                      messages |-> BuildMessages(user_input, history,
                                                 memory_context),
                      content |-> <<>>, response |-> <<>>]
    /\ UNCHANGED sessionVars /\ UNCHANGED << tts_req, stream >> /\ UNCHANGED cacheVars

\* the completion returns or raises: the content is stripped and
\* post-processed, the fixed apology is returned when it raised
\* (lines 276-308)
GenerateReturn(out) ==
    /\ gen_call.pc = "sent"
    /\ gen_call' = [gen_call EXCEPT
           !.pc = "done",
           !.content = out.text,
           !.response = generate_response(
               [out EXCEPT !.text = optimize_response_for_voice(Strip(out.text))])]
    /\ UNCHANGED sessionVars /\ UNCHANGED << tts_req, stream >> /\ UNCHANGED cacheVars

\* the caller has the response; the service takes the next call
GenerateReset ==
    /\ gen_call.pc = "done"
    /\ gen_call' = NoGenCall
    /\ UNCHANGED sessionVars /\ UNCHANGED << tts_req, stream >> /\ UNCHANGED cacheVars

\* ------------------------------------------------------- response cache
\* response_cache is the dict in insertion order, an entry being the timestamp
\* of its value; the keys (the md5 of the lowered input and the last three
\* history turns) are distinct and are not written out. The input of a call
\* is not cacheable, or its key is not in the dict, or its key is that of the
\* latest entry
CacheInputs == {"not_cacheable", "new", "latest"}

\* _cleanup_cache, lines 82-88
RemoveExpired(cache, current_time) ==
    SelectSeq(cache, LAMBDA e : ~(current_time - e.timestamp > cache_ttl))

\* the place of entry i in sorted(cache.items(), key=timestamp), a stable sort
SortedPlace(cache, i) ==
    Cardinality({j \in 1..Len(cache) :
                    \/ cache[j].timestamp < cache[i].timestamp
                    \/ cache[j].timestamp = cache[i].timestamp /\ j <= i})

\* the dict without the entries at the places in `deleted`
CacheDelete(cache, deleted) ==
    LET kept == (1..Len(cache)) \ deleted
        before == [i \in 1..Len(cache) |-> Cardinality({j \in deleted : j < i})]
    IN [k \in 1..Cardinality(kept) |-> cache[CHOOSE i \in kept : i - before[i] = k]]

\* _cleanup_cache, lines 90-98
RemoveOldest(cache) ==
    IF Len(cache) > max_cache_size
    THEN LET excess_count == Len(cache) - max_cache_size
         IN CacheDelete(cache, {i \in 1..Len(cache) : SortedPlace(cache, i) <= excess_count})
    ELSE cache

cleanup_cache(cache, current_time) == RemoveOldest(RemoveExpired(cache, current_time))

\* time.time() moves on between and during the calls: by half an hour, and
\* later by a whole TTL, after which the first entries have expired and those
\* of the half hour are exactly as old as the TTL
CacheTick ==
    /\ now \in {0, ClockStep}
    /\ now' = IF now = 0 THEN ClockStep ELSE now + cache_ttl
    /\ UNCHANGED << pipeline_sessions, active_sessions, is_active, creq, ereq,
                    session_id, room, audio_source, dup, handed_out, end_ok,
                    mapOrderVars, sweep, last_sweep >>
    /\ UNCHANGED wsVars /\ UNCHANGED cycleGhosts /\ UNCHANGED serviceVars
    /\ UNCHANGED << main_history, conversation_history, is_processing, audio_buffer,
                    silence_duration, quiet, pc, cyc, nframes, late, scen >>

\* generate_response up to the await of the completion (lines 191-276), as far
\* as the cache goes: _cleanup_cache, then for a cacheable input the lookup,
\* which returns a cached response that is younger than the TTL and deletes
\* one that is not
CacheGenerateCall(input) ==
    /\ cache_call.pc = "idle"
    /\ input = "latest" => response_cache # <<>>
    /\ LET cleaned == cleanup_cache(response_cache, now)
           present == input = "latest" /\ cleaned # <<>>
           hit == present /\ now - cleaned[Len(cleaned)].timestamp < cache_ttl
       IN /\ response_cache' = IF present /\ ~hit
                               THEN CacheDelete(cleaned, {Len(cleaned)})
                               ELSE cleaned
          /\ cache_call' = IF hit
                           THEN [pc |-> "idle", cacheable |-> FALSE, hit |-> TRUE]
                           ELSE [pc |-> "sent", cacheable |-> input # "not_cacheable",
                                 hit |-> FALSE]
    /\ UNCHANGED sessionVars /\ UNCHANGED << gen_call, tts_req, stream >>
    /\ UNCHANGED keyedVars

\* the completion returns and the response of a cacheable input is stored
\* with the time of the return (lines 289-296), or the completion raises
CacheGenerateReturn(ok) ==
    /\ cache_call.pc = "sent"
    /\ response_cache' = IF ok /\ cache_call.cacheable
                         THEN Append(response_cache, [timestamp |-> now])
                         ELSE response_cache
    /\ cache_call' = [pc |-> "idle", cacheable |-> FALSE, hit |-> FALSE]
    /\ UNCHANGED sessionVars /\ UNCHANGED << gen_call, tts_req, stream >>
    /\ UNCHANGED keyedVars

\* ------------------------------------- response cache: keys and responses
\* the first message of a client sets the role of the assistant, the later
\* ones are greetings, typed in two ways
Personae == { << "be a chef" >>, << "be a pirate" >> }
Greetings == { << "hi" >>, << "Hi", " " >> }

\* message.get("timestamp") of an audio_transcript message: the clients of
\* this model send none
ClientStamps == {0}

\* asyncio.get_event_loop().time() when a handler appends an assistant turn:
\* later than at every earlier append
LoopTime ==
    1 + Cardinality({ <<c, i>> \in Clients \X (1..MaxDialogue + 1) :
                        i <= Len(dialogue[c]) /\ dialogue[c][i].role = "assistant" })

Entry(role, content, timestamp) ==
    [role |-> role, content |-> content, timestamp |-> timestamp]

\* str.lower()
Lower(s) == [i \in 1..Len(s) |-> IF s[i] = "Hi" THEN "hi" ELSE s[i]]

\* some of the cacheable_patterns of _is_cacheable_input
cacheable_patterns == { "hello", "hi", "thanks" }

\* _is_cacheable_input, lines 61-76: a pattern occurs in the lowered and
\* stripped input, and the input is shorter than 50
is_cacheable_input(user_input) ==
    LET user_lower == Strip(Lower(user_input))
    IN /\ \E i \in 1..Len(user_lower) : user_lower[i] \in cacheable_patterns
       /\ Len(user_input) < 50

\* _get_cache_key, lines 49-59: the lowered and stripped input followed by
\* str() of the last three turns; md5 tells different strings apart
get_cache_key(user_input, history) ==
    << Strip(Lower(user_input)), LastN(history, 3) >>

\* a deterministic generator: it answers in the role its system message sets
Completion(messages) == << "as ", messages[1].content[2] >>

\* lines 286-287 of generate_response
Generated(messages) == optimize_response_for_voice(Strip(Completion(messages)))

Cached(key) == CHOOSE e \in cache_by_key : e.key = key

\* self.response_cache[cache_key] = {...}, lines 292-295
CachePut(key, response) ==
    { e \in cache_by_key : e.key # key } \cup { [key |-> key, response |-> response] }

\* the handler of client c receives an audio_transcript message (main.py,
\* lines 276-296): the user turn is appended and the confirmation is sent;
\* when the send raises the handler ends and the client connects again.
\* Otherwise generate_response runs up to the await of the completion
\* (ai_service.py, lines 191-276), or answers from the cache, and then the
\* handler appends the assistant turn (main.py, lines 302-306). The calls of
\* this model fall within cache_ttl seconds and the cache stays below
\* max_cache_size, so that _cleanup_cache deletes nothing; the memory of
\* earlier conversations is empty
KeyedMessage(c, text, stamp, sent) ==
    /\ keyed_call[c].pc = "idle"
    /\ Len(dialogue[c]) < MaxDialogue
    /\ text \in IF dialogue[c] = <<>> THEN Personae ELSE Greetings
    /\ LET history == Append(dialogue[c], Entry("user", text, stamp))
           key == get_cache_key(text, history)
           messages == BuildMessages(text, history, "")
       IN IF ~sent
          THEN /\ dialogue' = [dialogue EXCEPT ![c] = history]
               /\ UNCHANGED << cache_by_key, keyed_call, served >>
          ELSE IF is_cacheable_input(text) /\ \E e \in cache_by_key : e.key = key
          THEN /\ served' = [served EXCEPT ![c] =
                                [text |-> Cached(key).response,
                                 own |-> Generated(messages)]]
               /\ dialogue' = [dialogue EXCEPT ![c] =
                                  Append(history, Entry("assistant", Cached(key).response,
                                                        LoopTime))]
               /\ UNCHANGED << cache_by_key, keyed_call >>
          ELSE /\ dialogue' = [dialogue EXCEPT ![c] = history]
               /\ keyed_call' = [keyed_call EXCEPT ![c] =
                                    [pc |-> "sent", user_input |-> text,
                                     messages |-> messages]]
               /\ UNCHANGED << cache_by_key, served >>
    /\ UNCHANGED sessionVars
    /\ UNCHANGED << gen_call, tts_req, stream, response_cache, cache_call >>

\* the completion of client c's call returns or raises (ai_service.py, lines
\* 276-308), and the handler appends the assistant turn: the response of a
\* cacheable input is stored under the key of the history as it is now
KeyedReturn(c, ok) ==
    /\ keyed_call[c].pc = "sent"
    /\ LET response == IF ok THEN Generated(keyed_call[c].messages) ELSE Fallback
           user_input == keyed_call[c].user_input
       IN /\ cache_by_key' = IF ok /\ is_cacheable_input(user_input)
                             THEN CachePut(get_cache_key(user_input, dialogue[c]), response)
                             ELSE cache_by_key
          /\ served' = [served EXCEPT ![c] = [text |-> response, own |-> response]]
          /\ dialogue' = [dialogue EXCEPT ![c] =
                             Append(@, Entry("assistant", response, LoopTime))]
    /\ keyed_call' = [keyed_call EXCEPT ![c] = NoKeyedCall]
    /\ UNCHANGED sessionVars
    /\ UNCHANGED << gen_call, tts_req, stream, response_cache, cache_call >>

\* --------------------------------------------------------- specifications
\* a step of the audio-stream task of track t of session o, the transport
\* delivering at most `frames` frames
TaskStep(o, t, frames) ==
    \/ TrackSubscribed(o, t)
    \/ Ingest(o, t) /\ nframes < frames /\ cycles'[o] <= MaxCycles
    \/ SttReturn(o, t)
    \/ ObsTReturn(o, t)
    \/ GenReturn(o, t)
    \/ ObsRReturn(o, t)
    \/ TtsReturn(o, t)
    \/ PlayStep(o, t)

\* a step of a create request, at most `sessions` sessions being created
CreateStep(sessions) ==
    \/ CreateStart /\ NextObj <= sessions
    \/ \E o \in Objs : CreateToken(o)
    \/ \E o \in Objs : InitializeStep(o)

WsStep(w) ==
    \/ \E id \in Ids : WsConnect(w, id)
    \/ WsDisconnect(w)
    \/ WsError(w)

\* a step of the end request of slot r, for one of the ids in `ids`
EndStep(r, ids) ==
    \/ \E id \in ids : EndStart(r, id)
    \/ EndCleanupReturn(r)
    \/ EndRoomReturn(r)

\* one session, its tracks, its WebSocket clients and its end requests
Next ==
    \/ CreateStep(SoloSessions)
    \/ \E o \in Objs, t \in Tracks : TaskStep(o, t, MaxFrames)
    \/ \E w \in 1..SoloConns : WsStep(w)
    \/ \E r \in 1..SoloEndReqs : EndStep(r, 1..SoloSessions)

Spec == Init /\ [][Next]_vars

\* the step a running cycle of task t is waiting for: the return or failure
\* of the call it awaits
CycleStep(o, t) ==
    \/ SttReturn(o, t)
    \/ ObsTReturn(o, t)
    \/ GenReturn(o, t)
    \/ ObsRReturn(o, t)
    \/ TtsReturn(o, t)
    \/ PlayStep(o, t)

\* every call a cycle awaits eventually returns or fails
NextLive ==
    \/ CreateStep(SoloSessions)
    \/ \E o \in Objs, t \in Tracks : TaskStep(o, t, LiveFrames)
    \/ \E w \in 1..SoloConns : WsStep(w)
    \/ \E r \in 1..SoloEndReqs : EndStep(r, 1..SoloSessions)

SpecLive ==
    /\ Init /\ [][NextLive]_vars
    /\ \A o \in Objs, t \in Tracks : WF_vars(CycleStep(o, t))

\* several sessions side by side
NextPair ==
    \/ CreateStep(MaxSessions)
    \/ \E o \in Objs, t \in 1..PairTracks : TaskStep(o, t, PairFrames)
    \/ \E w \in 1..SoloConns : WsStep(w)
    \/ \E r \in 1..SoloEndReqs : EndStep(r, Ids)

SpecPair == Init /\ [][NextPair]_vars

\* the requests on the session maps
NextRegistry ==
    \/ CreateStep(MaxSessions)
    \/ \E r \in EndReqs : EndStep(r, Ids)
    \/ \E r \in EndReqs : EndReset(r)

SpecRegistry == Init /\ [][NextRegistry]_vars

\* VoicePipeline driven by a caller that chooses the session ids
NextDirect ==
    \/ \E id \in Ids : DirectCreate(id)
    \/ \E o \in Objs : InitializeStep(o)
    \/ \E o \in Objs, t \in Tracks : TrackSubscribed(o, t)

SpecDirect == Init /\ [][NextDirect]_vars

SweepStep(k) ==
    \/ SweepStart(k)
    \/ SweepCleanupReturn(k)
    \/ SweepEndRoomReturn(k)

SweepInFlight(k) == sweep[k].pc \in {"cleanup", "end_room"}
CreateInFlight(o) == creq[o].pc \in {"token", "agent_token", "connect", "publish"}

\* no create, end or sweep request is in progress
Quiet ==
    /\ \A o \in Objs : ~CreateInFlight(o)
    /\ \A r \in EndReqs : ~InFlight(r)
    /\ \A k \in Sweeps : ~SweepInFlight(k)

\* create, end and sweep requests arriving at any time
NextSweep ==
    \/ CreateStep(MaxSessions)
    \/ \E r \in 1..SoloEndReqs : EndStep(r, Ids)
    \/ \E k \in Sweeps : SweepStep(k)
    \/ Tick

SpecSweep == Init /\ [][NextSweep]_vars

\* create, end and sweep requests arriving one after the other: a request
\* arrives when no other one is in progress
NextSerial ==
    \/ CreateStart /\ Quiet
    \/ \E o \in Objs : CreateToken(o)
    \/ \E o \in Objs : InitializeStep(o)
    \/ \E r \in 1..SoloEndReqs, id \in Ids : EndStart(r, id) /\ Quiet
    \/ \E r \in 1..SoloEndReqs : EndCleanupReturn(r)
    \/ \E r \in 1..SoloEndReqs : EndRoomReturn(r)
    \/ \E r \in 1..SoloEndReqs : EndReset(r)
    \/ \E k \in Sweeps : SweepStart(k) /\ Quiet
    \/ \E k \in Sweeps : SweepCleanupReturn(k)
    \/ \E k \in Sweeps : SweepEndRoomReturn(k)
    \/ Tick

SpecSerial == Init /\ [][NextSerial]_vars

\* the prompt construction of generate_response on its own
NextGenerate ==
    \/ \E h \in Histories, pre \in BOOLEAN, m \in MemoryContexts : GenerateCall(h, pre, m)
    \/ \E out \in CompletionOutcomes : GenerateReturn(out)
    \/ GenerateReset

SpecGenerate == Init /\ [][NextGenerate]_vars

\* generate_response for the first turns of a conversation, the completion
\* sending contents around the hard cap
NextBrevity ==
    \/ \E h \in { History(n, first) : n \in 0..2, first \in {"user", "assistant"} },
          pre \in BOOLEAN, m \in MemoryContexts : GenerateCall(h, pre, m)
    \/ \E out \in CapOutcomes : GenerateReturn(out)
    \/ GenerateReset

SpecBrevity == Init /\ [][NextBrevity]_vars

\* the synthesis route on its own
NextTts ==
    \/ \E text \in Texts : TtsStart(text)
    \/ TtsFinish
    \/ TtsReset

SpecTts == Init /\ [][NextTts]_vars

\* the streaming synthesis on its own
NextStream ==
    \/ \E text \in ChunkTexts : StreamStart(text)
    \/ StreamSpeechReturn
    \/ StreamFallbackReturn
    \/ StreamReset

SpecStream == Init /\ [][NextStream]_vars

\* calls of generate_response, one at a time, and the clock
NextCache ==
    \/ \E input \in CacheInputs : CacheGenerateCall(input)
    \/ \E ok \in BOOLEAN : CacheGenerateReturn(ok)
    \/ CacheTick

SpecCache == Init /\ [][NextCache]_vars

\* the sessions of two clients and the cache they share
NextKeyed ==
    \/ \E c \in Clients, text \in Personae \cup Greetings, stamp \in ClientStamps,
          sent \in BOOLEAN : KeyedMessage(c, text, stamp, sent)
    \/ \E c \in Clients, ok \in BOOLEAN : KeyedReturn(c, ok)

SpecKeyed == Init /\ [][NextKeyed]_vars

\* one session and the messages of its WebSocket clients
NextWs ==
    \/ CreateStep(SoloSessions)
    \/ \E w \in 1..SoloConns : WsStep(w)
    \/ \E w \in 1..SoloConns, type \in MessageTypes :
         WsMessage(w, type) /\ \A o \in Objs : Len(main_history'[o]) <= MaxWsTurns
    \/ \E w \in 1..SoloConns : WsGenReturn(w)

SpecWs == Init /\ [][NextWs]_vars

\* one session, a task and two WebSocket clients
NextConns ==
    \/ CreateStep(SoloSessions)
    \/ \E o \in Objs, t \in 1..PairTracks : TaskStep(o, t, LiveFrames)
    \/ \E w \in Conns : WsStep(w)

SpecConns == Init /\ [][NextConns]_vars

\* one session served by its audio task and by the messages of a WebSocket
\* client at the same time
NextMixed ==
    \/ CreateStep(SoloSessions)
    \/ \E o \in Objs, t \in 1..PairTracks : TaskStep(o, t, LiveFrames)
    \/ \E w \in 1..SoloConns : WsStep(w)
    \/ \E w \in 1..SoloConns, type \in MessageTypes :
         WsMessage(w, type) /\ \A o \in Objs : Len(main_history'[o]) <= MixedTurns
    \/ \E w \in 1..SoloConns : WsGenReturn(w)

SpecMixed == Init /\ [][NextMixed]_vars

\* ================================================================ claims
\* C1: in every session at most one processing cycle is in flight, and
\* is_processing is true in exactly the states where one is in flight (so it
\* is false right before a cycle starts and right after it ends)
C1_OneCycleInFlight ==
    \A o \in Objs : /\ Cardinality(InCycle(o)) <= 1
                    /\ is_processing[o] <=> InCycle(o) # {}

\* a cycle is in flight while a second audio-stream task of the session has
\* received a frame
C1_Witness ==
    \E o \in Objs, t, u \in Tracks :
        /\ t # u
        /\ pc[<<o, t>>] \in CycleStates
        /\ pc[<<o, u>>] = "recv"
        /\ late # {}

\* C2: a frame delivered while is_processing is true is never in audio_buffer
\* and never in the audio a cycle transcribes
C2_LateFramesDropped ==
    \A f \in late : \A o \in Objs :
        /\ f \notin Range(audio_buffer[o])
        /\ \A t \in Tracks : f \notin Range(cyc[<<o, t>>].audio_bytes)

\* a cycle is transcribing audio that arrived after a dropped frame
C2_Witness ==
    \E f \in late, o \in Objs, t \in Tracks :
        /\ pc[<<o, t>>] = "stt"
        /\ cyc[<<o, t>>].audio_bytes # <<>>
        /\ f < cyc[<<o, t>>].audio_bytes[1]

\* C3: every step that ends a processing cycle, on success and on failure,
\* leaves audio_buffer empty, silence_duration 0 and is_processing false, and
\* the task that ran the cycle is back in its frame loop
C3_CycleAlwaysReleases ==
    [][ \A o \in Objs, t \in Tracks :
          (pc[<<o, t>>] \in CycleStates /\ pc'[<<o, t>>] \notin CycleStates)
          => /\ audio_buffer'[o] = <<>>
             /\ silence_duration'[o] = 0
             /\ ~is_processing'[o]
             /\ pc'[<<o, t>>] = "recv" ]_vars

\* a cycle has ended on a failing transcript observer: the user turn has no
\* assistant turn, the session is idle and its task waits for frames
C3_Witness ==
    \E o \in Objs, t \in Tracks :
        /\ InCycle(o) = {}
        /\ pc[<<o, t>>] = "recv"
        /\ ~is_processing[o]
        /\ conversation_history[o] # <<>>
        /\ conversation_history[o][Len(conversation_history[o])].role = "user"

\* C4: a session whose buffer holds speech and that has then handled 2.5 s of
\* silence-only frames has started exactly one cycle, has notified the
\* transcript observer exactly once and has an empty audio_buffer (the cycle
\* having found a registered observer and a non-empty transcript)
C4_SilenceScenario ==
    \A o \in Objs :
        (scen[o].on /\ scen[o].fed = ScenarioSilence /\ scen[o].clean /\ InCycle(o) = {})
        => /\ scen[o].started = 1
           /\ scen[o].fired = 1
           /\ audio_buffer[o] = <<>>

\* C5: the step in which transcription comes back empty or whitespace-only
\* (or failed) changes neither history, notifies no observer, calls neither
\* the generator nor the synthesizer, and clears audio_buffer
C5_EmptyTranscriptAborts ==
    [][ \A o \in Objs, t \in Tracks :
          ( /\ pc[<<o, t>>] = "stt"
            /\ pc'[<<o, t>>] # "stt"
            /\ stt_result'[o].raises \/ Strip(stt_result'[o].text) = <<>> )
          => /\ conversation_history'[o] = conversation_history[o]
             /\ main_history'[o] = main_history[o]
             /\ notif'[o] = notif[o]
             /\ calls'[o].gen = calls[o].gen
             /\ calls'[o].tts = calls[o].tts
             /\ audio_buffer'[o] = <<>>
             /\ pc'[<<o, t>>] = "recv" ]_vars

\* a cycle of a session with a registered observer was aborted on an empty
\* transcript
C5_Witness ==
    \E o \in Objs :
        /\ cycles[o] >= 1
        /\ InCycle(o) = {}
        /\ stt_result[o].raises \/ Strip(stt_result[o].text) = <<>>
        /\ on_transcript[o] # NoConn
        /\ conversation_history[o] = <<>>

\* C6: the notifications of a session are ordered by cycle, and every response
\* notification directly follows the transcript notification of its own cycle
C6_NotificationOrder ==
    \A o \in Objs : \A i \in 1..Len(notif[o]) :
        /\ notif[o][i][1] = "response"
           => i > 1 /\ notif[o][i - 1] = << "transcript", notif[o][i][2] >>
        /\ notif[o][i][1] = "transcript"
           => \A j \in 1..(i - 1) : notif[o][j][2] < notif[o][i][2]

\* C7: no step changes the audio_buffer, conversation_history, is_processing
\* or silence_duration of two sessions: a step of one session leaves the
\* state of every other session unchanged
SessionState(o) ==
    << audio_buffer[o], conversation_history[o], is_processing[o], silence_duration[o] >>

C7_SessionsIndependent ==
    [][ \A a, b \in Objs :
          a # b => SessionState(a)' = SessionState(a) \/ SessionState(b)' = SessionState(b) ]_vars

\* one session has run a cycle up to its history while another one buffers
C7_Witness ==
    \E a, b \in Objs :
        /\ a # b
        /\ conversation_history[a] # <<>>
        /\ audio_buffer[b] # <<>>

\* C8: a create for an id that is already registered fails, and the session
\* registered under the id is not replaced; no two live sessions handed out
\* by create have the same id
C8_DuplicateCreateRejected ==
    /\ \A o \in Objs :
         dup[o] => creq[o].pc = "failed" /\ pipeline_sessions[session_id[o]] # o
    /\ \A a, b \in handed_out :
         (a # b /\ room[a] = "connected" /\ room[b] = "connected")
         => session_id[a] # session_id[b]

\* C9: an end request for an id that is not registered reports not-found, and
\* for every id at most one end request reports success
C9_NotFoundStep ==
    \A r \in EndReqs :
        (ereq[r].pc = "idle" /\ ereq'[r].pc # "idle"
         /\ active_sessions[ereq'[r].id] = NoSession)
        => ereq'[r].pc = "done" /\ ereq'[r].result = "404"

C9_EndSucceedsOnce ==
    /\ [](\A id \in Ids : end_ok[id] <= 1)
    /\ [][C9_NotFoundStep]_vars

\* two end requests for one id have raced: one reported success, the other
\* an error
C9_Witness ==
    \E r, q \in EndReqs :
        /\ ereq[r].pc = "done" /\ ereq[q].pc = "done"
        /\ ereq[r].id = ereq[q].id
        /\ ereq[r].result = "ok" /\ ereq[q].result = "500"

\* C10: an end request for a registered session that no other end request
\* for the same id has overlapped reports success, also when the disconnect
\* or the room deletion failed, and the id is then in neither session map
C10_EndRemovesDespiteFailure ==
    \A r \in EndReqs :
        (ereq[r].pc = "done" /\ ereq[r].result # "404" /\ ~ereq[r].raced)
        => /\ ereq[r].result = "ok"
           /\ active_sessions[ereq[r].id] = NoSession
           /\ pipeline_sessions[ereq[r].id] = NoSession

\* an end request whose transport teardown failed has reported success
C10_Witness ==
    \E r \in EndReqs :
        /\ ereq[r].pc = "done"
        /\ ereq[r].tfail
        /\ ~ereq[r].raced
        /\ ereq[r].result = "ok"

\* C11: a sweep that runs with no other request in progress ends exactly the
\* sessions of the map whose age exceeds IDLE_TIMEOUT at its current_time: it
\* has run the teardown for each of them and for no other session, lists
\* exactly them, and its return removes exactly them from the session map,
\* the pipeline's map holding none of them either
C11_SweepStep ==
    \A k \in Sweeps :
        (sweep[k].pc # "done" /\ sweep'[k].pc = "done")
        => LET old == { id \in Ids :
                          /\ Present(id)
                          /\ sweep'[k].current_time - created_at[active_sessions[id]]
                               > IDLE_TIMEOUT }
           IN /\ sweep'[k].result = "ok"
              /\ sweep'[k].torn = old
              /\ Range(sweep'[k].cleaned_sessions) = old
              /\ Len(sweep'[k].cleaned_sessions) = Cardinality(old)
              /\ active_sessions' = [id \in Ids |-> IF id \in old THEN NoSession
                                                    ELSE active_sessions[id]]
              /\ \A id \in old : pipeline_sessions'[id] = NoSession

C11_SweepEndsExactlyIdle == [][C11_SweepStep]_vars

\* a sweep has reclaimed a session and has left one whose age is exactly the
\* timeout
C11_Witness ==
    \E k \in Sweeps, id \in Ids :
        /\ sweep[k].pc = "done"
        /\ sweep[k].cleaned_sessions # <<>>
        /\ Present(id)
        /\ sweep[k].current_time - created_at[active_sessions[id]] = IDLE_TIMEOUT

\* C12: a sweep that follows a completed sweep with no session created in
\* between tears down and lists none of the sessions the first one listed,
\* and when it runs at the same clock reading it returns an empty list
C12_SweepIdempotent ==
    \A k \in Sweeps :
        (sweep[k].pc = "done" /\ sweep[k].prev.valid /\ sweep[k].born = sweep[k].prev.born)
        => /\ sweep[k].torn \cap sweep[k].prev.cleaned = {}
           /\ Range(sweep[k].cleaned_sessions) \cap sweep[k].prev.cleaned = {}
           /\ sweep[k].current_time = sweep[k].prev.time
                => sweep[k].cleaned_sessions = <<>>

\* the second of two sweeps in succession has returned after the first one
\* reclaimed a session
C12_Witness ==
    \E k \in Sweeps :
        /\ sweep[k].pc = "done"
        /\ sweep[k].prev.valid
        /\ sweep[k].prev.cleaned # {}
        /\ sweep[k].born = sweep[k].prev.born
        /\ sweep[k].current_time = sweep[k].prev.time

\* C13: every sweep, also one that runs while create and end requests are in
\* progress, returns normally, and every session it ran the teardown for is
\* gone from the session map when it has returned
C13_SweepSerialized ==
    \A k \in Sweeps :
        sweep[k].pc = "done"
        => /\ sweep[k].result = "ok"
           /\ \A id \in sweep[k].torn : ~Present(id)

\* C14: once an end request for a session has returned successfully, no step
\* of that session's pipeline occurs any more: nothing is appended to its
\* conversation_history, no observer is notified, no transcription,
\* generation or synthesis call is made and no frame is captured for playback
Ended(o) ==
    \E r \in EndReqs : /\ ereq[r].pc = "done"
                       /\ ereq[r].result = "ok"
                       /\ ereq[r].id = session_id[o]

C14_EndInterruptsCycle ==
    [][ \A o \in Objs :
          Ended(o)
          => /\ conversation_history'[o] = conversation_history[o]
             /\ notif'[o] = notif[o]
             /\ calls'[o] = calls[o]
             /\ \A t \in Tracks :
                  ~ /\ pc'[<<o, t>>] = "play"
                    /\ \/ pc[<<o, t>>] # "play"
                       \/ cyc'[<<o, t>>].frames_left # cyc[<<o, t>>].frames_left ]_vars

\* C16: when the generator raises during a cycle, the cycle goes on with the
\* fixed fallback text: the step in which generate_response returns appends
\* the fallback as the assistant turn, hands it to the response observer (if
\* one is registered) and otherwise straight to synthesis, and the step in
\* which the observer returns passes the same text to synthesis
C16_FallbackStep ==
    \A o \in Objs, t \in Tracks :
        LET x == <<o, t>> IN
        /\ (pc[x] = "gen" /\ pc'[x] # "gen" /\ gen_result'[o].raises)
           => /\ conversation_history'[o] =
                    Append(conversation_history[o], Turn("assistant", Fallback))
              /\ is_processing'[o]
              /\ cyc'[x].ai_response = Fallback
              /\ IF on_ai_response[o] # NoConn
                 THEN /\ pc'[x] = "obs_r"
                      /\ notif'[o] = Append(notif[o], <<"response", cycles[o]>>)
                      /\ main_history'[o] =
                            Append(main_history[o], Turn("assistant", Fallback))
                 ELSE /\ pc'[x] = "tts"
                      /\ calls'[o].tts = calls[o].tts + 1
        /\ (pc[x] = "obs_r" /\ pc'[x] = "tts")
           => /\ cyc'[x].ai_response = cyc[x].ai_response
              /\ calls'[o].tts = calls[o].tts + 1

C16_FallbackOnGeneratorFailure == [][C16_FallbackStep]_vars

\* the fallback text of a failed generation has been sent to the observer and
\* is being synthesized
C16_Witness ==
    \E o \in Objs, t \in Tracks :
        /\ pc[<<o, t>>] = "tts"
        /\ gen_result[o].raises
        /\ cyc[<<o, t>>].ai_response = Fallback
        /\ notif[o] # <<>>
        /\ notif[o][Len(notif[o])] = <<"response", cycles[o]>>

\* C15: a generation call built from a history whose first turn has role user
\* starts with the system instruction derived from that turn's content,
\* forwards after it the later turns, verbatim and in order, limited to the
\* most recent 12, and sends nothing else except the current input; the first
\* turn itself is not among the user messages
C15_PersonaFirstTurn ==
    (gen_call.pc = "sent" /\ gen_call.conversation_history # <<>>
     /\ gen_call.conversation_history[1].role = "user")
    => LET h == gen_call.conversation_history
           later == LastN(Tail(h), persona_window)
           m == gen_call.messages
       IN /\ m[1] = Message("system", PersonaPrompt(h[1].content, gen_call.memory_context))
          /\ Len(m) >= 1 + Len(later)
          /\ \A i \in 1..Len(later) : m[1 + i] = Message(later[i].role, later[i].content)
          /\ Len(m) <= 2 + Len(later)
          /\ \A i \in 2..Len(m) : ~(m[i].role = "user" /\ m[i].content = h[1].content)

\* C17: a request to the synthesis route whose text is empty or blank is
\* answered with status 400, and text_to_speech has not been called for it
C17_EmptyTextIsBadRequest ==
    (tts_req.pc = "done" /\ Strip(tts_req.text) = <<>>)
    => tts_req.status = 400 /\ ~tts_req.called

\* C18: after a client message whose handling failed (the message could not
\* be parsed or had no type, or the generator failed) the client has been
\* sent an error event and the handler of the connection is still serving it
C18_MessageFailureKeepsConnection ==
    \A w \in Conns :
        wsm[w].failure # "none"
        => /\ wsm[w].sent \in {"error", "raw_error"}
           /\ ws[w].state = "open"

\* C19: no chunk that text_to_speech_streaming computes for a text is longer
\* than 120 characters, and no result it yields carries an empty or blank
\* text.
C19_ChunksWithinLimit ==
    /\ \A k \in 1..Len(stream.chunks) : Len(stream.chunks[k]) <= chunk_limit
    /\ \A k \in 1..Len(stream.yielded) : Strip(stream.yielded[k].text) # <<>>

\* the chunks one after the other
RECURSIVE Concatenated(_, _)
Concatenated(chunks, k) ==
    IF k > Len(chunks) THEN <<>> ELSE chunks[k] \o Concatenated(chunks, k + 1)

\* the characters of s that are neither whitespace nor commas, in order
Content(s) == SelectSeq(s, LAMBDA c : ~IsSpace(c) /\ c # ",")

Commas(s) == Len(SelectSeq(s, LAMBDA c : c = ","))

\* C20: the chunks computed for a text, put one after the other, have the
\* characters of the text in the same order and number, commas and
\* whitespace left aside: no stage of the splitting loses, repeats or moves
\* sentence content.
C20_ChunksReconstructText ==
    stream.pc # "idle"
        => Content(Concatenated(stream.chunks, 1)) = Content(stream.text)

\* a text longer than the limit was split into several chunks, one of them
\* ending in a pacing comma the text does not have
C20_Witness ==
    /\ stream.pc # "idle"
    /\ Len(stream.text) > chunk_limit
    /\ Len(stream.chunks) >= 3
    /\ Commas(Concatenated(stream.chunks, 1)) > Commas(stream.text)
    /\ Content(stream.text) # <<>>

\* C21: the results a streamed synthesis run has delivered form one ordered
\* sequence: chunk_index starts at 0 and increases strictly, total_chunks is
\* the same in all of them, only the last one delivered has is_final true,
\* and once the run is over the last one delivered has it.
C21_ResultsOrdered ==
    LET y == stream.yielded
    IN /\ y # <<>> => y[1].chunk_index = 0
       /\ \A k \in 1..(Len(y) - 1) :
            /\ y[k].chunk_index < y[k + 1].chunk_index
            /\ y[k].total_chunks = y[k + 1].total_chunks
            /\ ~y[k].is_final
       /\ stream.pc = "done" /\ y # <<>> => y[Len(y)].is_final

\* C22: when the content of the completion has 5 sentences (non-blank spans
\* between terminators), the response has exactly 3, the first three of the
\* content in order, and ends in a terminator.
C22_FiveSentencesBecomeThree ==
    (gen_call.pc = "done" /\ gen_call.response # Fallback
     /\ Len(sentences(gen_call.content)) = 5)
    => /\ sentences(gen_call.response) = SubSeq(sentences(gen_call.content), 1, 3)
       /\ IsPunct(gen_call.response[Len(gen_call.response)])

\* C23: while the processing cycle that an audio-stream task started is
\* suspended in transcription, an observer, generation, synthesis or
\* playback, that task can take the next frame of its stream.
C23_IngestNotBlocked ==
    \A o \in Objs, t \in Tracks :
        (pc[<<o, t>>] \in CycleStates /\ room[o] = "connected" /\ nframes < MaxFrames)
            => ENABLED Ingest(o, t)

\* a step in which the audio-stream loop of session o took a frame into the
\* buffer
Ingested(o) == Len(audio_buffer'[o]) > Len(audio_buffer[o])

C24_StartStep ==
    \A o \in Objs :
        /\ cycles'[o] # cycles[o] => Ingested(o) /\ cycles'[o] = cycles[o] + 1
        /\ Ingested(o) =>
             (cycles'[o] = cycles[o] + 1
                <=> (silence_duration'[o] >= max_silence_duration
                     /\ audio_buffer'[o] # <<>>))

\* C24: a processing cycle of a session starts in the very step that ingests
\* a frame after which silence_duration has reached the threshold and the
\* buffer is not empty, so before any further frame is ingested, and in no
\* other step.
C24_CycleStartsAtThreshold == [][C24_StartStep]_vars

\* a cycle has started on a frame that brought the silence to the threshold
\* exactly, after a frame that left it below
C24_Witness ==
    \E o \in Objs :
        /\ cycles[o] >= 1 /\ is_processing[o]
        /\ silence_duration[o] = max_silence_duration
        /\ Len(audio_buffer[o]) >= 2

\* ---- C25 --------------------------------------------------------------------

\* C25 (as stated): every inbound frame updates silence_duration, so that it
\* always equals the total duration of the contiguous silent frames received
\* since the last speech frame or the last cycle's cleanup, and a frame is
\* appended to the buffer only while the session is not processing
C25_EveryFrameCounted ==
    \A o \in Objs :
        /\ silence_duration[o] = quiet[o].all
        /\ is_processing[o] => \A k \in 1..Len(audio_buffer[o]) : audio_buffer[o][k] \notin late

\* C25 (amended): every frame received while the session is not processing
\* updates silence_duration and is appended to the buffer; a frame received
\* while it is processing changes neither; so silence_duration always equals
\* the total duration of the contiguous silent frames taken while not
\* processing since the last such speech frame or the last cycle's cleanup
C25_TakenFramesCounted ==
    /\ [](\A o \in Objs : silence_duration[o] = quiet[o].taken)
    /\ [][\A o \in Objs :
            /\ Ingested(o) => ~is_processing[o]
            /\ is_processing[o] /\ nframes' # nframes
                 => /\ audio_buffer'[o] = audio_buffer[o]
                    /\ silence_duration'[o] = silence_duration[o]]_vars

\* a cycle runs on silence counted over several frames, and a silent frame that
\* arrived during the cycle was left out of the count
C25_Witness ==
    \E o \in Objs :
        /\ is_processing[o]
        /\ silence_duration[o] >= max_silence_duration
        /\ quiet[o].taken = silence_duration[o]
        /\ quiet[o].all > quiet[o].taken

\* ---- C26 --------------------------------------------------------------------

\* C26: within one cycle the session calls transcription, then the response
\* generator, then the utterance chunker, then the speech synthesizer, each
\* after the previous one returned and at most once: a cycle that has reached
\* the synthesizer call has had the reply split by text_to_speech_streaming,
\* and a provider is called only by the step that follows its predecessor
C26_CycleCallOrder ==
    \A o \in Objs, t \in Tracks :
        /\ pc[<<o, t>>] \in {"gen", "obs_r", "tts", "play"} => calls[o].stt >= calls[o].gen
        /\ pc[<<o, t>>] \in {"tts", "play"} =>
              /\ calls[o].gen >= calls[o].tts
              /\ stream.pc # "idle"
              /\ stream.text = cyc[<<o, t>>].ai_response

\* ---- C27 --------------------------------------------------------------------

\* C27: when every call a cycle awaits eventually returns or fails, every
\* cycle that starts ends (is_processing true leads to is_processing false),
\* and a frame a task of the session receives once no cycle runs is buffered
C27_CycleEnds ==
    /\ \A o \in Objs : is_processing[o] ~> ~is_processing[o]
    /\ [][\A o \in Objs :
            (~is_processing[o] /\ (\E t \in Tracks : Ingest(o, t))) => Ingested(o)]_vars

\* a cycle has ended and a frame received after it is in the buffer
C27_Witness ==
    \E o \in Objs :
        /\ cycles[o] >= 1
        /\ ~is_processing[o]
        /\ audio_buffer[o] # <<>>
        /\ \A k \in 1..Len(audio_buffer[o]) : audio_buffer[o][k] \notin late
        /\ Len(conversation_history[o]) >= 2

\* ---- C28 --------------------------------------------------------------------

\* C28: the message list sent to the generator ends with a user message that
\* carries the current input, and carries it exactly once, whether or not
\* the caller appended the input to the history before the call
C28_InputSentOnce ==
    gen_call.pc # "idle"
    => LET m == gen_call.messages
           input == Message("user", gen_call.user_input)
       IN /\ m[Len(m)] = input
          /\ Cardinality({i \in 2..Len(m) : m[i] = input}) = 1

\* ---- C29 --------------------------------------------------------------------

\* the messages of the call that forward a turn of the history
ForwardedTurns ==
    {i \in 2..Len(gen_call.messages) :
        \E j \in 1..Len(gen_call.conversation_history) :
            gen_call.messages[i] = Message(gen_call.conversation_history[j].role,
                                           gen_call.conversation_history[j].content)}

\* the call was made with a history whose first turn is not a user turn
DefaultCase ==
    /\ gen_call.pc # "idle"
    /\ gen_call.conversation_history # <<>>
    /\ gen_call.conversation_history[1].role # "user"

\* C29 (as stated): when the history is non-empty and its first turn is not a
\* user turn, the generator receives the default system instruction and a
\* window of the history shorter than that of the persona case: fewer than
\* 12 turns
C29_DefaultWindowShorter ==
    DefaultCase
    => /\ gen_call.messages[1] = Message("system", DefaultPrompt)
       /\ Cardinality(ForwardedTurns) < persona_window

\* C29 (amended): when the history is non-empty and its first turn is not a
\* user turn, the generator receives the default system instruction and the
\* most recent turns of the whole history, at most 15 of them, in order
C29_DefaultWindow ==
    DefaultCase
    => LET h == gen_call.conversation_history
           m == gen_call.messages
           k == Min(Len(h), 15)
       IN /\ m[1] = Message("system", DefaultPrompt)
          /\ Len(m) \in {1 + k, 2 + k}
          /\ \A i \in 1..k :
                m[1 + i] = Message(h[Len(h) - k + i].role, h[Len(h) - k + i].content)
          /\ Cardinality(ForwardedTurns) = k

\* a call in the default case whose history is longer than the window
C29_Witness ==
    /\ DefaultCase
    /\ Len(gen_call.conversation_history) > default_window
    /\ Cardinality(ForwardedTurns) > persona_window

\* ---- C30 --------------------------------------------------------------------

\* C30: after any sequence of generate calls the response cache holds at most
\* max_cache_size entries
C30_CacheBounded ==
    cache_call.pc = "idle" => Len(response_cache) <= max_cache_size

\* ---- C31 --------------------------------------------------------------------

\* C31: when the creation of a session has failed (a token, the room connect
\* or the track publish raised) the caller has received an error and the
\* pipeline's session map holds no session of the failed request
C31_FailedCreateNotRegistered ==
    \A o \in Objs :
        creq[o].pc = "failed" => \A id \in Ids : pipeline_sessions[id] # o

\* ---- C32 --------------------------------------------------------------------

\* C32: whenever no create, end or sweep request is in progress, the session
\* map of main.py and the session map of the pipeline hold the same ids
C32_MapsAgree ==
    Quiet => \A id \in Ids :
                 (active_sessions[id] # NoSession) <=> (pipeline_sessions[id] # NoSession)

\* ---- C33 --------------------------------------------------------------------

\* C33: a session that is still in the session map of main.py once an end
\* request for it has finished, and no request is in progress, is marked
\* is_active, so that the sweep does not skip it
C33_EndedSessionsSweepable ==
    Quiet => \A id \in Ids :
                 (/\ active_sessions[id] # NoSession
                  /\ \E r \in EndReqs : ereq[r].pc = "done" /\ ereq[r].id = id)
                 => is_active[active_sessions[id]]

\* ---- C34 --------------------------------------------------------------------

\* C34: while a WebSocket client is connected to a session, the session's
\* transcript and response observers are registered and send to a connected
\* client, also after another connection to the session has gone
C34_ObserversStayRegistered ==
    \A w \in Conns :
        ws[w].state = "open"
        => LET o == ws[w].obj
           IN /\ on_transcript[o] # NoConn /\ ws[on_transcript[o]].state = "open"
              /\ on_ai_response[o] # NoConn /\ ws[on_ai_response[o]].state = "open"

\* ---- C35 --------------------------------------------------------------------

\* C35: in the history of a session's record every assistant turn comes
\* right after the user turn it answers, under any interleaving of the
\* audio_transcript messages of a client and the observers of the pipeline
C35_TurnsNotInterleaved ==
    \A o \in Objs :
        \A i \in 1..Len(main_history[o]) :
            main_history[o][i].role = "assistant"
            => i > 1 /\ main_history[o][i - 1].role = "user"

\* ---- C36 --------------------------------------------------------------------

\* the turns of a from position i on occur in b from position j on, in order
RECURSIVE OccursInOrder(_, _, _, _)
OccursInOrder(a, i, b, j) ==
    IF i > Len(a) THEN TRUE
    ELSE IF j > Len(b) THEN FALSE
    ELSE IF a[i] = b[j] THEN OccursInOrder(a, i + 1, b, j + 1)
    ELSE OccursInOrder(a, i, b, j + 1)

\* C36: the history that GET /api/session/{id} returns holds every turn the
\* pipeline has appended to the session's own conversation_history, in the
\* same order, whether or not a WebSocket client was connected
C36_RecordHoldsPipelineTurns ==
    \A id \in Ids :
        active_sessions[id] # NoSession
        => LET o == active_sessions[id]
           IN OccursInOrder(conversation_history[o], 1, main_history[o], 1)

\* ---- C37 --------------------------------------------------------------------

\* C37: whenever a session is not processing, its conversation_history is a
\* sequence of (user, assistant) pairs: every user turn of a cycle has been
\* followed by the assistant turn of that cycle, also when an observer or a
\* later step of the cycle failed
C37_HistoryInPairs ==
    \A o \in Objs :
        ~is_processing[o]
        => LET h == conversation_history[o]
           IN /\ Len(h) % 2 = 0
              /\ \A i \in 1..Len(h) :
                    h[i].role = IF i % 2 = 1 THEN "user" ELSE "assistant"

\* C38: the audio a cycle passes to transcription is the concatenation, in
\* arrival order, of the frames the session ingested since the previous
\* cycle's cleanup or the session's start: none is lost, duplicated or
\* reordered, and none was transcribed by an earlier cycle
C38_CycleAudioIsIngestedFrames ==
    \A o \in Objs, t \in Tracks :
        pc[<<o, t>>] \in CycleStates =>
            LET audio == cyc[<<o, t>>].audio_bytes
            IN /\ audio = quiet[o].frames
               /\ \A i, j \in 1..Len(audio) : i < j => audio[i] < audio[j]
               /\ \A i \in 1..Len(audio) : audio[i] \notin quiet[o].done

\* the second cycle of a session is transcribing more than one frame
C38_Witness ==
    \E o \in Objs, t \in Tracks :
        /\ pc[<<o, t>>] = "stt"
        /\ quiet[o].done # {}
        /\ Len(cyc[<<o, t>>].audio_bytes) > 1

\* C39: the text generate_response returns to a session is the text the
\* generator gives for that session's own input and history, whatever the
\* other sessions asked before: the cache never serves a response produced
\* under the persona first turn of another session
C39_ResponseIsOwn ==
    \A c \in Clients : served[c].text = served[c].own

\* C40: the text the voice-brevity post-processing returns is never longer
\* than the hard cap of 400 characters, the final terminator or the ellipsis
\* included
C40_ResponseWithinHardCap ==
    gen_call.pc = "done" => Len(gen_call.response) <= hard_cap

====
